---------------------------- MODULE Spec2Model ----------------------------
(***************************************************************************)
(* A model of GFA ingest in gbwtgraph (src/src/gfa.cpp): the memory-mapped *)
(* file and its tokenizer, the validating preprocessor (GFAFile::GFAFile), *)
(* the rescan iterators, parse_segments, parse_metadata,                   *)
(* parse_paths and gfa_to_gbwt; and of GFA output (gbwt_to_gfa): the       *)
(* segment cache and the writers of P-lines and W-lines.                   *)
(*                                                                         *)
(* The file is a sequence of bytes (ASCII codes).  A pointer into the      *)
(* mapped region is an offset 0..file_size; the region is mapped at        *)
(* address 0 and nullptr is NIL.  The three character-class bit masks are  *)
(* sets of bytes.                                                          *)
(***************************************************************************)
EXTENDS Integers, Sequences, FiniteSets, TLC

VARIABLES
  file,                   \* the bytes of the file
  max_node_length,        \* GFAParsingParameters::max_node_length
  automatic_batch_size,   \* GFAParsingParameters::automatic_batch_size
  parameters_batch_size,  \* GFAParsingParameters::batch_size
  failing_call,           \* the system call that fails in this run, if one does
  fd, file_size, ptr,     \* GFAFile: the descriptor, the size and the mapped region
  syscalls,               \* the system calls made on the file, in order
  destroyed,              \* ~GFAFile() has run
  pc,                     \* position in gfa_to_gbwt
  iter, line_num,         \* the preprocessor's loop variables
  valid_gfa, translate_segment_ids, max_segment_length, max_path_length,
  s_lines, l_lines, p_lines, w_lines,
  errors,                 \* the diagnostics written to std::cerr, in order
  translate,              \* parse_segments: the local `translate`
  next_id, segment_translation, sequences,   \* SequenceSource
  graph_nodes,            \* EmptyGraph
  allocations,            \* the ranges returned by translate_segment, in order
  metadata_calls, metadata_installed,        \* MetadataBuilder / builder.index.metadata
  rec_i, field, sub,      \* the running rescan iterator: record number, token, position
  current_path,           \* parse_paths: the accumulation buffer
  inserted,               \* the sequences given to builder.insert(), in order
  finished,               \* builder.finish() has been called
  batch_size,             \* gfa_to_gbwt: the local `batch_size`
  result,                 \* what gfa_to_gbwt returned
  tokens, reads,          \* the tokens the last step produced, the offsets it read
  it, callbacks,          \* a for_each_* call of a user of GFAFile: which, and its callbacks
  first_pass,             \* what a pass over the same bytes without the final newline gave
  cache,                  \* gbwt_to_gfa: the SegmentCache (segments, names)
  written,                \* the P-lines and W-lines written: for each, its references
  offset                  \* write_paths / write_walks: the local `offset`

vars == << file, max_node_length, automatic_batch_size, parameters_batch_size,
           failing_call, fd, file_size, ptr, syscalls, destroyed, pc, iter, line_num, valid_gfa,
           translate_segment_ids, max_segment_length, max_path_length,
           s_lines, l_lines, p_lines, w_lines, errors, translate, next_id,
           segment_translation, sequences, graph_nodes, allocations,
           metadata_calls, metadata_installed, rec_i, field, sub,
           current_path, inserted, finished, batch_size, result,
           tokens, reads, it, callbacks, first_pass, cache, written, offset >>

parameter_vars == << automatic_batch_size, parameters_batch_size, failing_call >>
resource_vars == << fd, file_size, ptr, syscalls, destroyed >>
user_vars == << it, callbacks, first_pass >>
emit_vars == << cache, written, offset >>

---------------------------------------------------------------------------
(* Bytes. *)

ch_NL == 10
ch_TAB == 9
ch_COMMA == 44
ch_LT == 60
ch_GT == 62
ch_PLUS == 43
ch_MINUS == 45
ch_ZERO == 48
ch_S == 83
ch_L == 76
ch_P == 80
ch_W == 87

\* nullptr
NIL == -1

\* std::numeric_limits<size_t>::max(), as far as the model's integers go: any
\* value above every length the model can hold plays the same part.
SIZE_MAX == 2147483647

\* The ASCII codes of the characters the input files are written with.
Ord(c) ==
  CASE c = "\t" -> ch_TAB  [] c = "\n" -> ch_NL  [] c = "," -> ch_COMMA
    [] c = "<" -> ch_LT    [] c = ">" -> ch_GT   [] c = "+" -> ch_PLUS
    [] c = "-" -> ch_MINUS [] c = "S" -> ch_S    [] c = "L" -> ch_L
    [] c = "P" -> ch_P     [] c = "W" -> ch_W    [] c = "0" -> ch_ZERO
    [] c = "1" -> 49  [] c = "2" -> 50  [] c = "3" -> 51  [] c = "5" -> 53
    [] c = "9" -> 57
    [] c = "?" -> 63  [] c = "*" -> 42  [] c = "#" -> 35  [] c = "H" -> 72
    [] c = "A" -> 65  [] c = "C" -> 67  [] c = "G" -> 71  [] c = "T" -> 84
    [] c = "a" -> 97  [] c = "b" -> 98  [] c = "c" -> 99  [] c = "p" -> 112
    [] c = "q" -> 113 [] c = "s" -> 115 [] c = "x" -> 120

Bytes(chars) == [i \in 1..Len(chars) |-> Ord(chars[i])]

---------------------------------------------------------------------------
(* The tokenizer. *)

begin == ptr
end == ptr + file_size

\* *p, for a pointer into the mapped region
ByteAt(p) == file[p + 1]

field_end == {ch_NL, ch_TAB}
subfield_end == {ch_NL, ch_TAB, ch_COMMA}
walk_subfield_end == {ch_NL, ch_TAB, ch_LT, ch_GT}

\* while(limit != end() && !is_*_end(limit)) { ++limit; }
RECURSIVE ScanTo(_, _)
ScanTo(limit, ends) ==
  IF limit # end /\ ~(ByteAt(limit) \in ends) THEN ScanTo(limit + 1, ends) ELSE limit

next_line(p) ==
  LET q == ScanTo(p, {ch_NL}) IN IF q # end THEN q + 1 ELSE q

first_field(line_start, ln) ==
  LET limit == ScanTo(line_start, field_end) IN
  [begin |-> line_start, end |-> limit, line_num |-> ln, type |-> ByteAt(line_start),
   has_next |-> (limit # end /\ ByteAt(limit) = ch_TAB)]

next_field(f) ==
  LET limit == ScanTo(f.end + 1, field_end) IN
  [begin |-> f.end + 1, end |-> limit, line_num |-> f.line_num, type |-> f.type,
   has_next |-> (limit # end /\ ByteAt(limit) = ch_TAB)]

\* next_subfield that takes anything but the end of the file for a comma.
next_subfield_to_end_of_file(f) ==
  LET limit == ScanTo(f.end + 1, subfield_end) IN
  [begin |-> f.end + 1, end |-> limit, line_num |-> f.line_num, type |-> f.type,
   has_next |-> limit # end]

next_subfield(f) ==
  LET limit == ScanTo(f.end + 1, subfield_end) IN
  [begin |-> f.end + 1, end |-> limit, line_num |-> f.line_num, type |-> f.type,
   has_next |-> (limit # end /\ ByteAt(limit) = ch_COMMA)]

next_walk_subfield(f) ==
  LET limit == IF f.end # end /\ ByteAt(f.end) \in {ch_LT, ch_GT}
               THEN ScanTo(f.end + 1, walk_subfield_end)
               ELSE f.end
  IN [begin |-> f.end, end |-> limit, line_num |-> f.line_num, type |-> f.type,
      has_next |-> (limit # end /\ ByteAt(limit) \in {ch_LT, ch_GT})]

\* start_walk() that leaves `end` at the tab.
start_walk_in_place(f) == f

start_walk(f) == [f EXCEPT !.end = f.end + 1]

\* field_type's accessors
size(f) == f.end - f.begin
empty(f) == size(f) = 0
str(f) == SubSeq(file, f.begin + 1, f.end)
front(f) == ByteAt(f.begin)
back(f) == ByteAt(f.end - 1)
valid_orientation(f) == size(f) = 1 /\ (back(f) = ch_MINUS \/ back(f) = ch_PLUS)
is_reverse_orientation(f) == back(f) = ch_MINUS
valid_path_segment(f) == size(f) >= 2 /\ (back(f) = ch_MINUS \/ back(f) = ch_PLUS)
path_segment(f) == SubSeq(file, f.begin + 1, f.end - 1)
is_reverse_path_segment(f) == back(f) = ch_MINUS
valid_walk_segment(f) == size(f) >= 2 /\ (front(f) = ch_LT \/ front(f) = ch_GT)
walk_segment(f) == SubSeq(file, f.begin + 2, f.end)
is_reverse_walk_segment(f) == front(f) = ch_LT

---------------------------------------------------------------------------
(* Integer parsing. *)

IsDigit(c) == c >= ch_ZERO /\ c <= ch_ZERO + 9
IsSpace(c) == c = 32 \/ (c >= 9 /\ c <= 13)

\* stoul_unsafe: result = 10 * result + (c - '0') over every byte.  The names the
\* model's files hold have bytes >= '0' and at most a few of them, so the 64-bit
\* accumulator never wraps.
RECURSIVE stoul_unsafe_from(_, _, _)
stoul_unsafe_from(s, i, acc) ==
  IF i > Len(s) THEN acc ELSE stoul_unsafe_from(s, i + 1, 10 * acc + (s[i] - ch_ZERO))

stoul_unsafe(s) == stoul_unsafe_from(s, 1, 0)

\* The decimal digits of ULONG_MAX, 2^64 - 1.
ULONG_MAX_digits == << 1, 8, 4, 4, 6, 7, 4, 4, 0, 7, 3, 7, 0, 9, 5, 5, 1, 6, 1, 5 >>

RECURSIVE StripZeros(_)
StripZeros(s) == IF s # << >> /\ Head(s) = ch_ZERO THEN StripZeros(Tail(s)) ELSE s

\* Whether a run of digits stands for a value above ULONG_MAX.
ExceedsUlong(s) ==
  LET d == StripZeros(s)
      n == Len(ULONG_MAX_digits)
  IN \/ Len(d) > n
     \/ /\ Len(d) = n
        /\ \E i \in 1..n :
             /\ d[i] - ch_ZERO > ULONG_MAX_digits[i]
             /\ \A j \in 1..(i - 1) : d[j] - ch_ZERO = ULONG_MAX_digits[j]

\* std::stoul(name), base 10: strtoul skips leading white space, takes an optional
\* sign and then the longest run of digits; with no digit at all it throws
\* std::invalid_argument, with a value above ULONG_MAX std::out_of_range, and what
\* follows the digits is ignored.  A '-' negates the value modulo 2^64, which is
\* zero only for zero.
RECURSIVE SkipSpace(_, _)
SkipSpace(s, i) == IF i <= Len(s) /\ IsSpace(s[i]) THEN SkipSpace(s, i + 1) ELSE i

RECURSIVE DigitRun(_, _)
DigitRun(s, i) == IF i <= Len(s) /\ IsDigit(s[i]) THEN DigitRun(s, i + 1) ELSE i

stoul(s) ==
  LET i == SkipSpace(s, 1)
      j == IF i <= Len(s) /\ s[i] \in {ch_PLUS, ch_MINUS} THEN i + 1 ELSE i
      k == DigitRun(s, j)
      v == stoul_unsafe(SubSeq(s, j, k - 1))
  IN IF k = j THEN [status |-> "invalid_argument", value |-> 0]
     ELSE IF ExceedsUlong(SubSeq(s, j, k - 1)) THEN [status |-> "out_of_range", value |-> 0]
     ELSE [status |-> "ok",
           value |-> IF j > i /\ s[i] = ch_MINUS THEN 0 - v ELSE v]

---------------------------------------------------------------------------
(* The preprocessor: GFAFile::check_field and add_{s,l,p,w}_line.  Each add_*  *)
(* returns the iterator at the next line (NIL for nullptr), the diagnostics it *)
(* wrote, the statistics it updated, the tokens it produced, in order, and     *)
(* whether it left by an exception.                                            *)

Max(a, b) == IF a >= b THEN a ELSE b

Diag(msg, what, f) == [msg |-> msg, what |-> what, type |-> f.type, line |-> f.line_num]

\* The diagnostic check_field writes, or << >> when the field is valid.
check_field(f, field_name, should_have_next) ==
  IF empty(f) THEN << Diag("has no", field_name, f) >>
  ELSE IF should_have_next /\ ~f.has_next THEN << Diag("ended after", field_name, f) >>
  ELSE << >>

Failed(diag, toks) ==
  [iter |-> NIL, valid |-> FALSE, errors |-> diag,
   translate_segment_ids |-> translate_segment_ids,
   max_segment_length |-> max_segment_length,
   max_path_length |-> max_path_length,
   tokens |-> toks, thrown |-> FALSE]

Passed(p, tr, msl, mpl, toks) ==
  [iter |-> p, valid |-> TRUE, errors |-> << >>,
   translate_segment_ids |-> tr,
   max_segment_length |-> msl,
   max_path_length |-> mpl,
   tokens |-> toks, thrown |-> FALSE]

\* An exception no handler of the constructor catches.
Thrown(toks) ==
  [iter |-> NIL, valid |-> valid_gfa, errors |-> << >>,
   translate_segment_ids |-> translate_segment_ids,
   max_segment_length |-> max_segment_length,
   max_path_length |-> max_path_length,
   tokens |-> toks, thrown |-> TRUE]

\* The try block of add_s_line: whether the name sets translate_segment_ids.
NameNeedsTranslation(name) ==
  LET r == stoul(name) IN
  IF r.status = "ok" THEN r.value = 0 ELSE TRUE

\* The try block catches std::invalid_argument only.
NameThrows(name) == stoul(name).status = "out_of_range"

add_s_line(p, ln) ==
  LET f1 == first_field(p, ln)
      e1 == check_field(f1, "record type", TRUE)
      f2 == next_field(f1)
      e2 == check_field(f2, "segment name", TRUE)
      tr == IF ~translate_segment_ids THEN NameNeedsTranslation(str(f2)) ELSE TRUE
      f3 == next_field(f2)
      e3 == check_field(f3, "sequence", FALSE)
  IN IF e1 # << >> THEN Failed(e1, << f1 >>)
     ELSE IF e2 # << >> THEN Failed(e2, << f1, f2 >>)
     ELSE IF ~translate_segment_ids /\ NameThrows(str(f2)) THEN Thrown(<< f1, f2 >>)
     ELSE IF e3 # << >> THEN [Failed(e3, << f1, f2, f3 >>) EXCEPT !.translate_segment_ids = tr]
     ELSE Passed(next_line(f3.end), tr, Max(max_segment_length, size(f3)), max_path_length,
                 << f1, f2, f3 >>)

add_l_line(p, ln) ==
  LET f1 == first_field(p, ln)
      e1 == check_field(f1, "record type", TRUE)
      f2 == next_field(f1)
      e2 == check_field(f2, "source segment", TRUE)
      f3 == next_field(f2)
      e3 == check_field(f3, "source orientation", TRUE)
      f4 == next_field(f3)
      e4 == check_field(f4, "destination segment", TRUE)
      f5 == next_field(f4)
      e5 == check_field(f5, "destination orientation", FALSE)
  IN IF e1 # << >> THEN Failed(e1, << f1 >>)
     ELSE IF e2 # << >> THEN Failed(e2, << f1, f2 >>)
     ELSE IF e3 # << >> THEN Failed(e3, << f1, f2, f3 >>)
     ELSE IF ~valid_orientation(f3)
          THEN Failed(<< Diag("Invalid", "source orientation", f3) >>, << f1, f2, f3 >>)
     ELSE IF e4 # << >> THEN Failed(e4, << f1, f2, f3, f4 >>)
     ELSE IF e5 # << >> THEN Failed(e5, << f1, f2, f3, f4, f5 >>)
     ELSE IF ~valid_orientation(f5)
          THEN Failed(<< Diag("Invalid", "destination orientation", f5) >>,
                      << f1, f2, f3, f4, f5 >>)
     ELSE Passed(next_line(f5.end), translate_segment_ids, max_segment_length, max_path_length,
                 << f1, f2, f3, f4, f5 >>)

\* do { field = next_subfield(field); if(!valid) fail; path_length++; } while(field.has_next);
\* with the subfields it went over.
RECURSIVE path_loop(_, _, _)
path_loop(f, path_length, toks) ==
  LET g == next_subfield(f) IN
  IF ~valid_path_segment(g)
  THEN [ok |-> FALSE, field |-> g, path_length |-> path_length, tokens |-> Append(toks, g)]
  ELSE IF g.has_next THEN path_loop(g, path_length + 1, Append(toks, g))
  ELSE [ok |-> TRUE, field |-> g, path_length |-> path_length + 1, tokens |-> Append(toks, g)]

add_p_line(p, ln) ==
  LET f1 == first_field(p, ln)
      e1 == check_field(f1, "record type", TRUE)
      f2 == next_field(f1)
      e2 == check_field(f2, "path name", TRUE)
      loop == path_loop(f2, 0, << f1, f2 >>)
  IN IF e1 # << >> THEN Failed(e1, << f1 >>)
     ELSE IF e2 # << >> THEN Failed(e2, << f1, f2 >>)
     ELSE IF ~loop.ok
          THEN Failed(<< Diag("Invalid", "path segment", loop.field) >>, loop.tokens)
     ELSE IF loop.path_length = 0
          THEN Failed(<< Diag("is empty", "path", loop.field) >>, loop.tokens)
     ELSE Passed(next_line(loop.field.end), translate_segment_ids, max_segment_length,
                 Max(max_path_length, loop.path_length), loop.tokens)

RECURSIVE walk_loop(_, _, _)
walk_loop(f, path_length, toks) ==
  LET g == next_walk_subfield(f) IN
  IF ~valid_walk_segment(g)
  THEN [ok |-> FALSE, field |-> g, path_length |-> path_length, tokens |-> Append(toks, g)]
  ELSE IF g.has_next THEN walk_loop(g, path_length + 1, Append(toks, g))
  ELSE [ok |-> TRUE, field |-> g, path_length |-> path_length + 1, tokens |-> Append(toks, g)]

add_w_line(p, ln) ==
  LET f1 == first_field(p, ln)
      e1 == check_field(f1, "record type", TRUE)
      f2 == next_field(f1)
      e2 == check_field(f2, "sample name", TRUE)
      f3 == next_field(f2)
      e3 == check_field(f3, "haplotype index", TRUE)
      f4 == next_field(f3)
      e4 == check_field(f4, "contig name", TRUE)
      f5 == next_field(f4)
      e5 == check_field(f5, "start position", TRUE)
      f6 == next_field(f5)
      e6 == check_field(f6, "end position", TRUE)
      loop == walk_loop(start_walk(f6), 0, << f1, f2, f3, f4, f5, f6, start_walk(f6) >>)
  IN IF e1 # << >> THEN Failed(e1, << f1 >>)
     ELSE IF e2 # << >> THEN Failed(e2, << f1, f2 >>)
     ELSE IF e3 # << >> THEN Failed(e3, << f1, f2, f3 >>)
     ELSE IF e4 # << >> THEN Failed(e4, << f1, f2, f3, f4 >>)
     ELSE IF e5 # << >> THEN Failed(e5, << f1, f2, f3, f4, f5 >>)
     ELSE IF e6 # << >> THEN Failed(e6, << f1, f2, f3, f4, f5, f6 >>)
     ELSE IF ~loop.ok
          THEN Failed(<< Diag("Invalid", "walk segment", loop.field) >>, loop.tokens)
     ELSE IF loop.path_length = 0
          THEN Failed(<< Diag("is empty", "walk", loop.field) >>, loop.tokens)
     ELSE Passed(next_line(loop.field.end), translate_segment_ids, max_segment_length,
                 Max(max_path_length, loop.path_length), loop.tokens)

---------------------------------------------------------------------------
(* GFAFile's observers. *)

ok == fd >= 0 /\ file_size > 0 /\ ptr # NIL /\ valid_gfa
segments == Len(s_lines)
links == Len(l_lines)
paths == Len(p_lines)
walks == Len(w_lines)

---------------------------------------------------------------------------
(* GFAFile::GFAFile.  First the file is opened, measured and mapped; each of  *)
(* the three calls can fail, and mapping no bytes always does.               *)

MapError(what) == [msg |-> "Cannot", what |-> what, type |-> 0, line |-> 0]

MapFile ==
  /\ pc = "open"
  /\ LET outcome == IF failing_call = "open" THEN "open failed"
                    ELSE IF failing_call = "fstat" THEN "stat failed"
                    ELSE IF failing_call = "mmap" \/ Len(file) = 0 THEN "map failed"
                    ELSE "mapped"
     IN
       /\ fd' = (IF outcome = "open failed" THEN -1 ELSE 3)
       /\ file_size' = (IF outcome \in {"map failed", "mapped"} THEN Len(file) ELSE 0)
       /\ ptr' = (IF outcome = "mapped" THEN 0 ELSE NIL)
       /\ syscalls' = syscalls \o
            (CASE outcome = "open failed" -> << "open" >>
               [] outcome = "stat failed" -> << "open", "fstat" >>
               [] OTHER -> << "open", "fstat", "mmap" >>)
       /\ errors' = errors \o
            (CASE outcome = "open failed" -> << MapError("open file") >>
               [] outcome = "stat failed" -> << MapError("stat file") >>
               [] outcome = "map failed" -> << MapError("memory map file") >>
               [] OTHER -> << >>)
       /\ iter' = (IF outcome = "mapped" THEN ptr' ELSE iter)
       /\ pc' = (IF outcome = "mapped" THEN "preprocess" ELSE "check")
  /\ line_num' = 0
  /\ tokens' = << >> /\ reads' = {}
  /\ UNCHANGED << file, max_node_length, destroyed, valid_gfa,
                  translate_segment_ids, max_segment_length, max_path_length,
                  s_lines, l_lines, p_lines, w_lines, translate, next_id,
                  segment_translation, sequences, graph_nodes, allocations,
                  metadata_calls, metadata_installed, rec_i, field, sub,
                  current_path, inserted, finished, batch_size, result >>
  /\ UNCHANGED << emit_vars, parameter_vars, user_vars >>

\* ~GFAFile(), when gfa_to_gbwt returns: the region is unmapped, then the
\* descriptor is closed.  An exception that leaves the constructor leaves no
\* object to destroy.
Destructor ==
  /\ pc = "done" /\ ~destroyed /\ result # "exception"
  /\ destroyed' = TRUE
  /\ syscalls' = syscalls \o (IF ptr # NIL THEN << "munmap" >> ELSE << >>)
                          \o (IF fd >= 0 THEN << "close" >> ELSE << >>)
  /\ file_size' = (IF ptr # NIL THEN 0 ELSE file_size)
  /\ ptr' = NIL
  /\ fd' = -1
  /\ tokens' = << >> /\ reads' = {}
  /\ UNCHANGED << file, max_node_length, pc, iter, line_num, valid_gfa,
                  translate_segment_ids, max_segment_length, max_path_length,
                  s_lines, l_lines, p_lines, w_lines, errors, translate, next_id,
                  segment_translation, sequences, graph_nodes, allocations,
                  metadata_calls, metadata_installed, rec_i, field, sub,
                  current_path, inserted, finished, batch_size, result >>
  /\ UNCHANGED << emit_vars, parameter_vars, user_vars >>

\* scan_reads of a loop that tests the byte at its limit before anything else.
scan_reads_byte_first(t) == t.begin .. t.end

\* The offsets a loop that stopped at t.end read on its way from t.begin: the last
\* one, where it stopped, unless that is end().
scan_reads(t) == {q \in t.begin .. t.end : q # end}

\* The offsets next_line(p) reads.
line_reads(p) == {q \in p .. ScanTo(p, {ch_NL}) : q # end}

\* The offsets a step read that produced toks: the scans and, in field_type's
\* accessors, bytes of the tokens.
token_reads(toks) == UNION {scan_reads(toks[i]) : i \in 1..Len(toks)}

\* No token of this step; it read nothing.
NoTokens == tokens' = << >> /\ reads' = {}

(* The preprocessing loop of GFAFile::GFAFile: one line per step.  A nullptr *)
(* from add_* returns from the constructor; so does reaching end(); an       *)
(* exception leaves the constructor and gfa_to_gbwt.                         *)

Preprocessed(r) ==
  /\ valid_gfa' = (IF r.valid THEN valid_gfa ELSE FALSE)
  /\ errors' = errors \o r.errors
  /\ translate_segment_ids' = r.translate_segment_ids
  /\ max_segment_length' = r.max_segment_length
  /\ max_path_length' = r.max_path_length
  /\ iter' = r.iter
  /\ line_num' = (IF r.iter = NIL THEN line_num ELSE line_num + 1)
  /\ pc' = (IF r.thrown THEN "done"
            ELSE IF r.iter = NIL \/ r.iter = end THEN "check" ELSE "preprocess")
  /\ result' = (IF r.thrown THEN "exception" ELSE result)
  /\ tokens' = r.tokens
  /\ reads' = {iter} \cup token_reads(r.tokens)
                \cup (IF r.iter = NIL THEN {}
                      ELSE IF r.tokens = << >> THEN line_reads(iter)
                      ELSE line_reads(r.tokens[Len(r.tokens)].end))
  /\ UNCHANGED << file, max_node_length, translate, next_id, segment_translation,
                  sequences, graph_nodes, allocations, metadata_calls,
                  metadata_installed, rec_i, field, sub, current_path, inserted,
                  finished, batch_size >>
  /\ UNCHANGED << emit_vars, parameter_vars, resource_vars, user_vars >>

AddSLine ==
  /\ pc = "preprocess" /\ iter # end /\ ByteAt(iter) = ch_S
  /\ s_lines' = Append(s_lines, iter)
  /\ Preprocessed(add_s_line(iter, line_num))
  /\ UNCHANGED << l_lines, p_lines, w_lines >>

AddLLine ==
  /\ pc = "preprocess" /\ iter # end /\ ByteAt(iter) = ch_L
  /\ l_lines' = Append(l_lines, iter)
  /\ Preprocessed(add_l_line(iter, line_num))
  /\ UNCHANGED << s_lines, p_lines, w_lines >>

AddPLine ==
  /\ pc = "preprocess" /\ iter # end /\ ByteAt(iter) = ch_P
  /\ p_lines' = Append(p_lines, iter)
  /\ Preprocessed(add_p_line(iter, line_num))
  /\ UNCHANGED << s_lines, l_lines, w_lines >>

AddWLine ==
  /\ pc = "preprocess" /\ iter # end /\ ByteAt(iter) = ch_W
  /\ w_lines' = Append(w_lines, iter)
  /\ Preprocessed(add_w_line(iter, line_num))
  /\ UNCHANGED << s_lines, l_lines, p_lines >>

SkipLine ==
  /\ pc = "preprocess" /\ iter # end /\ ~(ByteAt(iter) \in {ch_S, ch_L, ch_P, ch_W})
  /\ Preprocessed(Passed(next_line(iter), translate_segment_ids, max_segment_length,
                         max_path_length, << >>))
  /\ UNCHANGED << s_lines, l_lines, p_lines, w_lines >>

---------------------------------------------------------------------------
(* gfa_to_gbwt up to parse_segments: check_gfa_file. *)

\* check_gfa_file_errors that asks for segments only.
check_gfa_file_errors_segments_only ==
  IF ~ok THEN << >>
  ELSE IF segments = 0 THEN << [msg |-> "No segments", what |-> "file", type |-> 0, line |-> 0] >>
  ELSE << >>

\* The diagnostics check_gfa_file writes; it returns true exactly when ok() holds
\* and it writes none.
check_gfa_file_errors ==
  IF ~ok THEN << >>
  ELSE IF segments = 0 THEN << [msg |-> "No segments", what |-> "file", type |-> 0, line |-> 0] >>
  ELSE IF paths = 0 /\ walks = 0
       THEN << [msg |-> "No paths or walks", what |-> "file", type |-> 0, line |-> 0] >>
  ELSE << >>

\* check_gfa_file without its first line, if(!(gfa_file.ok())) { return false; }
check_gfa_file_ignoring_validity == check_gfa_file_errors = << >>

check_gfa_file == ok /\ check_gfa_file_errors = << >>

CheckGfaFile ==
  /\ pc = "check"
  /\ errors' = errors \o check_gfa_file_errors
  /\ IF check_gfa_file
     THEN pc' = "batch_size" /\ result' = result
     ELSE pc' = "done" /\ result' = "null"
  /\ NoTokens
  /\ UNCHANGED << file, max_node_length, iter, line_num, valid_gfa,
                  translate_segment_ids, max_segment_length, max_path_length,
                  s_lines, l_lines, p_lines, w_lines, translate, next_id,
                  segment_translation, sequences, graph_nodes, allocations,
                  metadata_calls, metadata_installed, rec_i, field, sub,
                  current_path, inserted, finished, batch_size >>
  /\ UNCHANGED << emit_vars, parameter_vars, resource_vars, user_vars >>

---------------------------------------------------------------------------
(* SequenceSource and EmptyGraph, as parse_segments and parse_paths use them. *)

Min(a, b) == IF a <= b THEN a ELSE b

\* ceil(len / m)
Ceil(len, m) == (len \div m) + (IF len % m = 0 THEN 0 ELSE 1)

\* The i-th chunk (from 0) of a sequence cut into pieces of at most m bytes.
Chunk(sequence, i, m) == SubSeq(sequence, i * m + 1, Min((i + 1) * m, Len(sequence)))

\* translate_segment for a name it allocates a range for: ceil(len / max_length)
\* consecutive identifiers from next_id, each chunk stored against its own.
translate_fresh(name, sequence, max_length) ==
  LET start == next_id
      limit == start + Ceil(Len(sequence), max_length)
  IN [range |-> << start, limit >>,
      next_id |-> limit,
      segment_translation |->
        [n \in DOMAIN segment_translation \cup {name} |->
           IF n = name THEN << start, limit >> ELSE segment_translation[n]],
      sequences |->
        [id \in DOMAIN sequences \cup (start .. limit - 1) |->
           IF id \in start .. limit - 1 THEN Chunk(sequence, id - start, max_length)
           ELSE sequences[id]]]

\* translate_segment for a name already in the table, keeping the first entry.
translate_kept(name) ==
  [range |-> segment_translation[name], next_id |-> next_id,
   segment_translation |-> segment_translation, sequences |-> sequences]

\* The outcomes of translate_segment(name, sequence, max_length): what it returns
\* and the state it leaves.  For a name seen before, either the first entry is
\* kept or a new range replaces it.
translate_segment(name, sequence, max_length) ==
  IF name \in DOMAIN segment_translation
  THEN {translate_kept(name), translate_fresh(name, sequence, max_length)}
  ELSE {translate_fresh(name, sequence, max_length)}

\* The stores add_node(id, sequence) can leave: for an identifier seen before,
\* either sequence is kept.
add_node(id, sequence) ==
  LET stored == [i \in DOMAIN sequences \cup {id} |->
                   IF i = id THEN sequence ELSE sequences[i]]
  IN IF id \in DOMAIN sequences THEN {sequences, stored} ELSE {stored}

uses_translation == DOMAIN segment_translation # {}

invalid_translation == << 0, 0 >>

get_translation(name) ==
  IF name \in DOMAIN segment_translation THEN segment_translation[name]
  ELSE invalid_translation

---------------------------------------------------------------------------
(* determine_batch_size. *)

\* gbwt::DynamicGBWT::MIN_SEQUENCES_PER_BATCH
MIN_SEQUENCES_PER_BATCH == 10

\* determine_batch_size that does not clip to the size of the file.
determine_batch_size_unclipped(automatic, size_parameter, path_length, bytes) ==
  IF automatic
  THEN Max(MIN_SEQUENCES_PER_BATCH * (path_length + 1), size_parameter)
  ELSE size_parameter

determine_batch_size(automatic, size_parameter, path_length, bytes) ==
  IF automatic
  THEN LET min_size == MIN_SEQUENCES_PER_BATCH * (path_length + 1)
       IN Min(bytes, Max(min_size, size_parameter))
  ELSE size_parameter

\* gfa_to_gbwt: batch_size = determine_batch_size(gfa_file, parameters), which the
\* builder is later made with.
DetermineBatchSize ==
  /\ pc = "batch_size"
  /\ batch_size' = determine_batch_size(automatic_batch_size, parameters_batch_size,
                                        max_path_length, file_size)
  /\ pc' = "parse_segments"
  /\ NoTokens
  /\ UNCHANGED << file, max_node_length, iter, line_num, valid_gfa,
                  translate_segment_ids, max_segment_length, max_path_length,
                  s_lines, l_lines, p_lines, w_lines, errors, translate, next_id,
                  segment_translation, sequences, graph_nodes, allocations,
                  metadata_calls, metadata_installed, rec_i, field, sub,
                  current_path, inserted, finished, result >>
  /\ UNCHANGED << emit_vars, parameter_vars, resource_vars, user_vars >>

---------------------------------------------------------------------------
(* parse_segments. *)

\* The tokens a step produced, and what it read besides scanning for them.
Tokenized(toks, also) == tokens' = toks /\ reads' = token_reads(toks) \cup also

\* A bound of 0 taken for the smallest bound instead of none.
effective_max_node_length_zero_as_one(m) == IF m = 0 THEN 1 ELSE m

\* size_t max_node_length = (parameters.max_node_length == 0 ? max() : ...)
effective_max_node_length(m) == IF m = 0 THEN SIZE_MAX ELSE m

\* "Determine if we need translation."
needs_translation(msl, tsi, m) ==
  IF msl > effective_max_node_length(m) THEN TRUE
  ELSE IF tsi THEN TRUE
  ELSE FALSE

\* The loop with id <= translation.second.
created_nodes_inclusive(translation) == translation[1] .. translation[2]

\* for(nid_t id = translation.first; id < translation.second; id++) create_node(id)
created_nodes(translation) == translation[1] .. (translation[2] - 1)

ParseSegmentsBegin ==
  /\ pc = "parse_segments"
  /\ translate' = needs_translation(max_segment_length, translate_segment_ids, max_node_length)
  /\ rec_i' = 1
  /\ pc' = "segments"
  /\ NoTokens
  /\ UNCHANGED << file, max_node_length, iter, line_num, valid_gfa,
                  translate_segment_ids, max_segment_length, max_path_length,
                  s_lines, l_lines, p_lines, w_lines, errors, next_id,
                  segment_translation, sequences, graph_nodes, allocations,
                  metadata_calls, metadata_installed, field, sub,
                  current_path, inserted, finished, batch_size, result >>
  /\ UNCHANGED << emit_vars, parameter_vars, resource_vars, user_vars >>

\* The fields a round of for_each_segment goes over.
segment_tokens(line_start) ==
  LET f1 == first_field(line_start, 0)
      f2 == next_field(f1)
  IN << f1, f2, next_field(f2) >>

\* One round of for_each_segment with the callback of parse_segments.
ForEachSegment ==
  /\ pc = "segments" /\ ok /\ rec_i <= segments
  /\ LET f1 == first_field(s_lines[rec_i], 0)
         f2 == next_field(f1)
         f3 == next_field(f2)
         name == str(f2)
         sequence == str(f3)
     IN IF translate
        THEN \E o \in translate_segment(name, sequence,
                                        effective_max_node_length(max_node_length)) :
               /\ next_id' = o.next_id
               /\ segment_translation' = o.segment_translation
               /\ sequences' = o.sequences
               /\ graph_nodes' = graph_nodes \cup created_nodes(o.range)
               /\ allocations' = Append(allocations, [name |-> name, range |-> o.range])
        ELSE /\ \E stored \in add_node(stoul_unsafe(name), sequence) : sequences' = stored
             /\ graph_nodes' = graph_nodes \cup {stoul_unsafe(name)}
             /\ UNCHANGED << next_id, segment_translation, allocations >>
  /\ rec_i' = rec_i + 1
  /\ Tokenized(segment_tokens(s_lines[rec_i]), {s_lines[rec_i]})
  /\ UNCHANGED << file, max_node_length, pc, iter, line_num, valid_gfa,
                  translate_segment_ids, max_segment_length, max_path_length,
                  s_lines, l_lines, p_lines, w_lines, errors, translate,
                  metadata_calls, metadata_installed, field, sub,
                  current_path, inserted, finished, batch_size, result >>
  /\ UNCHANGED << emit_vars, parameter_vars, resource_vars, user_vars >>

\* for_each_segment has gone over s_lines; parse_segments returns.
ParseSegmentsEnd ==
  /\ pc = "segments" /\ rec_i > segments
  /\ pc' = "parse_metadata"
  /\ NoTokens
  /\ UNCHANGED << file, max_node_length, iter, line_num, valid_gfa,
                  translate_segment_ids, max_segment_length, max_path_length,
                  s_lines, l_lines, p_lines, w_lines, errors, translate, next_id,
                  segment_translation, sequences, graph_nodes, allocations,
                  metadata_calls, metadata_installed, rec_i, field, sub,
                  current_path, inserted, finished, batch_size, result >>
  /\ UNCHANGED << emit_vars, parameter_vars, resource_vars, user_vars >>

---------------------------------------------------------------------------
(* parse_metadata.  The calls on MetadataBuilder answer true or false. *)

MetaError(what) == [msg |-> "Could not parse GBWT metadata", what |-> what, type |-> 0, line |-> 0]

\* The name a round of for_each_path_name gives its callback.
path_name_of(line_start) == str(next_field(first_field(line_start, 0)))

\* The four strings a round of for_each_walk_name gives its callback.
walk_name_of(line_start) ==
  LET f2 == next_field(first_field(line_start, 0))
      f3 == next_field(f2)
      f4 == next_field(f3)
      f5 == next_field(f4)
  IN << str(f2), str(f3), str(f4), str(f5) >>

\* The fields a round of for_each_path_name goes over.
path_name_tokens(line_start) ==
  LET f1 == first_field(line_start, 0) IN << f1, next_field(f1) >>

\* The fields a round of for_each_walk_name goes over.
walk_name_tokens(line_start) ==
  LET f1 == first_field(line_start, 0)
      f2 == next_field(f1)
      f3 == next_field(f2)
      f4 == next_field(f3)
  IN << f1, f2, f3, f4, next_field(f4) >>

MetadataUnchanged ==
  /\ UNCHANGED << file, max_node_length, iter, line_num, valid_gfa,
                  translate_segment_ids, max_segment_length, max_path_length,
                  s_lines, l_lines, p_lines, w_lines, translate, next_id,
                  segment_translation, sequences, graph_nodes, allocations,
                  field, current_path, inserted, finished, batch_size >>
  /\ UNCHANGED << emit_vars, parameter_vars, resource_vars, user_vars >>

\* The branches taken with the test for paths first.
metadata_branch_paths_first(n_walks, n_paths) ==
  IF n_paths > 0 THEN "parse"
  ELSE (IF n_walks > 0 THEN "walks" ELSE "install")

\* if(walks() > 0) { if(paths() > 0) {...} ... } else if(paths() > 0) {...}
metadata_branch(n_walks, n_paths) ==
  IF n_walks > 0
  THEN (IF n_paths > 0 THEN "reference_paths" ELSE "walks")
  ELSE (IF n_paths > 0 THEN "parse" ELSE "install")

ParseMetadataBegin ==
  /\ pc = "parse_metadata"
  /\ pc' = "metadata"
  /\ rec_i' = 1
  /\ sub' = metadata_branch(walks, paths)
  /\ UNCHANGED << errors, metadata_calls, metadata_installed, result >>
  /\ NoTokens
  /\ MetadataUnchanged

\* MetadataCall that reports a failed call and goes on to the next record.
MetadataCall_reporting_only(fn, args, answer, what, records, then) ==
  /\ metadata_calls' = Append(metadata_calls, [fn |-> fn, args |-> args])
  /\ errors' = (IF answer THEN errors ELSE Append(errors, MetaError(what)))
  /\ result' = result /\ pc' = pc
  /\ IF rec_i + 1 > records
     THEN rec_i' = 1 /\ sub' = then
     ELSE rec_i' = rec_i + 1 /\ sub' = sub
  /\ UNCHANGED metadata_installed
  /\ MetadataUnchanged

\* A failed call stops the iteration and parse_metadata returns false; after the
\* last record the next part of parse_metadata follows.
MetadataCall(fn, args, answer, what, records, then) ==
  /\ metadata_calls' = Append(metadata_calls, [fn |-> fn, args |-> args])
  /\ IF answer
     THEN /\ errors' = errors /\ result' = result /\ pc' = pc
          /\ IF rec_i + 1 > records
             THEN rec_i' = 1 /\ sub' = then
             ELSE rec_i' = rec_i + 1 /\ sub' = sub
     ELSE /\ errors' = Append(errors, MetaError(what))
          /\ result' = "null" /\ pc' = "done"
          /\ rec_i' = rec_i /\ sub' = sub
  /\ UNCHANGED metadata_installed
  /\ MetadataUnchanged

AddReferencePath ==
  /\ pc = "metadata" /\ sub = "reference_paths" /\ ok /\ rec_i <= paths
  /\ \E answer \in BOOLEAN :
       MetadataCall("add_reference_path", << path_name_of(p_lines[rec_i]) >>, answer,
                    "reference path names", paths, "walks")
  /\ Tokenized(path_name_tokens(p_lines[rec_i]), {p_lines[rec_i]})

AddWalk ==
  /\ pc = "metadata" /\ sub = "walks" /\ ok /\ rec_i <= walks
  /\ \E answer \in BOOLEAN :
       MetadataCall("add_walk", walk_name_of(w_lines[rec_i]), answer,
                    "walks", walks, "install")
  /\ Tokenized(walk_name_tokens(w_lines[rec_i]), {w_lines[rec_i]})

ParsePathName ==
  /\ pc = "metadata" /\ sub = "parse" /\ ok /\ rec_i <= paths
  /\ \E answer \in BOOLEAN :
       MetadataCall("parse", << path_name_of(p_lines[rec_i]) >>, answer,
                    "path names", paths, "install")
  /\ Tokenized(path_name_tokens(p_lines[rec_i]), {p_lines[rec_i]})

\* builder.index.metadata = metadata.get_metadata(); parse_metadata returns true and
\* gfa_to_gbwt calls parse_paths, which starts for_each_path on an empty buffer.
InstallMetadata ==
  /\ pc = "metadata" /\ sub = "install"
  /\ metadata_installed' = TRUE
  /\ pc' = "paths" /\ sub' = "header" /\ rec_i' = 1
  /\ UNCHANGED << errors, metadata_calls, result >>
  /\ NoTokens
  /\ MetadataUnchanged

---------------------------------------------------------------------------
(* parse_paths. *)

\* gbwt::Node::encode(id, is_reverse), kept as the pair it encodes.
Node(id, is_reverse) == [id |-> id, is_reverse |-> is_reverse]

\* A reverse run that keeps the forward order of the nodes.
reverse_run_ascending(id, first) == [i \in 1..(id - first) |-> [id |-> first + i - 1, is_reverse |-> TRUE]]

\* for(nid_t id = range.second; id > range.first; id--) push_back(encode(id - 1, ...))
RECURSIVE reverse_run(_, _)
reverse_run(id, first) ==
  IF id > first THEN << Node(id - 1, TRUE) >> \o reverse_run(id - 1, first) ELSE << >>

\* for(nid_t id = range.first; id < range.second; id++) push_back(encode(id, ...))
RECURSIVE forward_run(_, _)
forward_run(id, second) ==
  IF id < second THEN << Node(id, FALSE) >> \o forward_run(id + 1, second) ELSE << >>

\* The lambda add_segment: what it returns and what it appends to current_path.
add_segment(name, is_reverse) ==
  IF uses_translation
  THEN LET range == get_translation(name) IN
       IF range[1] = 0 /\ range[2] = 0 THEN [ok |-> FALSE, nodes |-> << >>]
       ELSE IF is_reverse THEN [ok |-> TRUE, nodes |-> reverse_run(range[2], range[1])]
       ELSE [ok |-> TRUE, nodes |-> forward_run(range[1], range[2])]
  ELSE [ok |-> TRUE, nodes |-> << Node(stoul_unsafe(name), is_reverse) >>]

PathsUnchanged ==
  /\ UNCHANGED << file, max_node_length, iter, line_num, valid_gfa,
                  translate_segment_ids, max_segment_length, max_path_length,
                  s_lines, l_lines, p_lines, w_lines, errors, translate, next_id,
                  segment_translation, sequences, graph_nodes, allocations,
                  metadata_calls, metadata_installed, finished, batch_size, result >>
  /\ UNCHANGED << emit_vars, parameter_vars, resource_vars, user_vars >>

\* for_each_path: the path name field and the callback path(), which returns true.
PathHeader ==
  /\ pc = "paths" /\ sub = "header" /\ ok /\ rec_i <= paths
  /\ field' = next_field(first_field(p_lines[rec_i], 0))
  /\ sub' = "segment"
  /\ Tokenized(path_name_tokens(p_lines[rec_i]), {p_lines[rec_i]})
  /\ UNCHANGED << pc, rec_i, current_path, inserted >>
  /\ PathsUnchanged

\* for_each_path: one round of the do-while loop.  When add_segment returns false
\* for_each_path returns, and parse_paths goes on to for_each_walk.
PathSegment ==
  /\ pc = "paths" /\ sub = "segment"
  /\ LET g == next_subfield(field)
         r == add_segment(path_segment(g), is_reverse_path_segment(g))
     IN /\ field' = g
        /\ current_path' = current_path \o r.nodes
        /\ IF r.ok
           THEN /\ sub' = (IF g.has_next THEN "segment" ELSE "finish")
                /\ UNCHANGED << pc, rec_i >>
           ELSE pc' = "walks" /\ sub' = "header" /\ rec_i' = 1
        /\ Tokenized(<< g >>, {g.end - 1})
  /\ UNCHANGED inserted
  /\ PathsUnchanged

\* finish_path() with the sequence put before the ones inserted so far.
FinishPath_Prepend ==
  /\ pc = "paths" /\ sub = "finish"
  /\ inserted' = << [type |-> ch_P, line |-> p_lines[rec_i], nodes |-> current_path] >> \o inserted
  /\ current_path' = << >>
  /\ rec_i' = rec_i + 1
  /\ sub' = "header"
  /\ NoTokens
  /\ UNCHANGED << pc, field >>
  /\ UNCHANGED << file, max_node_length, iter, line_num, valid_gfa,
                  translate_segment_ids, max_segment_length, max_path_length,
                  s_lines, l_lines, p_lines, w_lines, errors, translate, next_id,
                  segment_translation, sequences, graph_nodes, allocations,
                  metadata_calls, metadata_installed, finished, batch_size, result >>
  /\ UNCHANGED << emit_vars, parameter_vars, resource_vars, user_vars >>

\* for_each_path: finish_path(): builder.insert(current_path, true); current_path.clear()
FinishPath ==
  /\ pc = "paths" /\ sub = "finish"
  /\ inserted' = Append(inserted, [type |-> ch_P, line |-> p_lines[rec_i], nodes |-> current_path])
  /\ current_path' = << >>
  /\ rec_i' = rec_i + 1
  /\ sub' = "header"
  /\ NoTokens
  /\ UNCHANGED << pc, field >>
  /\ PathsUnchanged

\* for_each_path has gone over p_lines.
PathsEnd ==
  /\ pc = "paths" /\ sub = "header" /\ rec_i > paths
  /\ pc' = "walks" /\ rec_i' = 1
  /\ NoTokens
  /\ UNCHANGED << sub, field, current_path, inserted >>
  /\ PathsUnchanged

\* for_each_walk: the four name fields, the callback walk(), which returns true, and
\* the end field.
WalkHeader ==
  /\ pc = "walks" /\ sub = "header" /\ ok /\ rec_i <= walks
  /\ LET f2 == next_field(first_field(w_lines[rec_i], 0))
         f5 == next_field(next_field(next_field(f2)))
         f6 == next_field(f5)
     IN /\ field' = start_walk(f6)
        /\ Tokenized(walk_name_tokens(w_lines[rec_i]) \o << f6, start_walk(f6) >>,
                     {w_lines[rec_i]})
  /\ sub' = "segment"
  /\ UNCHANGED << pc, rec_i, current_path, inserted >>
  /\ PathsUnchanged

\* for_each_walk: one round of the do-while loop.  When add_segment returns false
\* for_each_walk returns, and parse_paths goes on to builder.finish().
WalkSegment ==
  /\ pc = "walks" /\ sub = "segment"
  /\ LET g == next_walk_subfield(field)
         r == add_segment(walk_segment(g), is_reverse_walk_segment(g))
     IN /\ field' = g
        /\ current_path' = current_path \o r.nodes
        /\ IF r.ok
           THEN /\ sub' = (IF g.has_next THEN "segment" ELSE "finish")
                /\ UNCHANGED << pc, rec_i >>
           ELSE pc' = "finish" /\ sub' = "header" /\ rec_i' = rec_i
        /\ Tokenized(<< g >>, {g.begin})
  /\ UNCHANGED inserted
  /\ PathsUnchanged

\* for_each_walk: finish_walk()
FinishWalk ==
  /\ pc = "walks" /\ sub = "finish"
  /\ inserted' = Append(inserted, [type |-> ch_W, line |-> w_lines[rec_i], nodes |-> current_path])
  /\ current_path' = << >>
  /\ rec_i' = rec_i + 1
  /\ sub' = "header"
  /\ NoTokens
  /\ UNCHANGED << pc, field >>
  /\ PathsUnchanged

\* for_each_walk has gone over w_lines.
WalksEnd ==
  /\ pc = "walks" /\ sub = "header" /\ rec_i > walks
  /\ pc' = "finish"
  /\ NoTokens
  /\ UNCHANGED << rec_i, sub, field, current_path, inserted >>
  /\ PathsUnchanged

\* builder.finish(); parse_paths returns and gfa_to_gbwt returns the index.
FinishConstruction ==
  /\ pc = "finish"
  /\ finished' = TRUE
  /\ result' = "index"
  /\ pc' = "done"
  /\ NoTokens
  /\ UNCHANGED << file, max_node_length, iter, line_num, valid_gfa,
                  translate_segment_ids, max_segment_length, max_path_length,
                  s_lines, l_lines, p_lines, w_lines, errors, translate, next_id,
                  segment_translation, sequences, graph_nodes, allocations,
                  metadata_calls, metadata_installed, rec_i, field, sub,
                  current_path, inserted, batch_size >>
  /\ UNCHANGED << emit_vars, parameter_vars, resource_vars, user_vars >>

---------------------------------------------------------------------------
(* The input files: up to MaxLines lines of a set, joined by newlines, the last *)
(* with or without its newline; and the parameters.                            *)

MaxLines == 3
MaxNodeLength == 2

Tab(fields) ==
  LET RECURSIVE join(_)
      join(i) == IF i > Len(fields) THEN << >>
                 ELSE (IF i > 1 THEN << ch_TAB >> ELSE << >>) \o Bytes(fields[i]) \o join(i + 1)
  IN join(1)

FileOf(lines, newline) ==
  LET RECURSIVE join(_)
      join(i) == IF i > Len(lines) THEN << >>
                 ELSE lines[i]
                      \o (IF i < Len(lines) \/ newline THEN << ch_NL >> ELSE << >>)
                      \o join(i + 1)
  IN join(1)

FilesOf(lineset) ==
  { FileOf(lines, newline) :
      lines \in UNION { [1..n -> lineset] : n \in 1..MaxLines }, newline \in BOOLEAN }

Line_S_1 == Tab(<< <<"S">>, <<"1">>, <<"A","A","A","A","A">> >>)
Line_S_2 == Tab(<< <<"S">>, <<"2">>, <<"G">> >>)
Line_S_a == Tab(<< <<"S">>, <<"a">>, <<"A","C","G">> >>)
Line_L == Tab(<< <<"L">>, <<"1">>, <<"+">>, <<"2">>, <<"-">>, <<"*">> >>)
Line_P_12 == Tab(<< <<"P">>, <<"p">>, <<"1","-",",","2","+">>, <<"*">> >>)
Line_P_1 == Tab(<< <<"P">>, <<"p">>, <<"1","-">>, <<"*">> >>)
Line_P_ab == Tab(<< <<"P">>, <<"q">>, <<"a","-",",","b","+">> >>)
Line_W_1a == Tab(<< <<"W">>, <<"s">>, <<"1">>, <<"c">>, <<"0">>, <<"5">>, <<">","1","<","a">> >>)
Line_H == Tab(<< <<"H">>, <<"x">> >>)

Lines == { Line_S_1, Line_S_2, Line_S_a, Line_L, Line_P_1, Line_P_12, Line_P_ab,
           Line_W_1a, Line_H }

\* gfa_to_gbwt is about to construct the GFAFile.
InitOver(files, lengths, automatic, sizes, failing) ==
  /\ file \in files
  /\ max_node_length \in lengths
  /\ automatic_batch_size \in automatic
  /\ parameters_batch_size \in sizes
  /\ failing_call \in failing
  /\ fd = -1 /\ file_size = 0 /\ ptr = NIL
  /\ syscalls = << >>
  /\ destroyed = FALSE
  /\ pc = "open"
  /\ iter = NIL /\ line_num = 0
  /\ valid_gfa = TRUE /\ translate_segment_ids = FALSE
  /\ max_segment_length = 0 /\ max_path_length = 0
  /\ s_lines = << >> /\ l_lines = << >> /\ p_lines = << >> /\ w_lines = << >>
  /\ errors = << >>
  /\ translate = FALSE
  /\ next_id = 1 /\ segment_translation = << >> /\ sequences = << >>
  /\ graph_nodes = {}
  /\ allocations = << >>
  /\ metadata_calls = << >> /\ metadata_installed = FALSE
  /\ rec_i = 0
  /\ field = [begin |-> 0, end |-> 0, line_num |-> 0, type |-> 0, has_next |-> FALSE]
  /\ sub = "header"
  /\ current_path = << >> /\ inserted = << >>
  /\ finished = FALSE
  /\ batch_size = NIL
  /\ result = "none"
  /\ tokens = << >> /\ reads = {}
  /\ it = "none" /\ callbacks = << >> /\ first_pass = << >>
  /\ cache = [segments |-> << >>, names |-> << >>] /\ written = << >> /\ offset = 0

\* The batch size parameters at their defaults, automatic and over no minimum, and
\* a file that can be mapped.
InitWith(files, lengths) == InitOver(files, lengths, {TRUE}, {0}, {"none"})

Init == InitWith(FilesOf(Lines), 0..MaxNodeLength)

Next ==
  \/ MapFile
  \/ AddSLine \/ AddLLine \/ AddPLine \/ AddWLine \/ SkipLine
  \/ CheckGfaFile \/ DetermineBatchSize
  \/ ParseSegmentsBegin \/ ForEachSegment \/ ParseSegmentsEnd
  \/ ParseMetadataBegin \/ AddReferencePath \/ AddWalk \/ ParsePathName
  \/ InstallMetadata
  \/ PathHeader \/ PathSegment \/ FinishPath \/ PathsEnd
  \/ WalkHeader \/ WalkSegment \/ FinishWalk \/ WalksEnd
  \/ FinishConstruction
  \/ Destructor

Spec == Init /\ [][Next]_vars

\* Files with lines the preprocessor rejects among lines it accepts.
Pre_S_1 == Tab(<< <<"S">>, <<"1">>, <<"A">> >>)
Pre_S_1x == Tab(<< <<"S">>, <<"1","x">>, <<"A">> >>)
Pre_S_0 == Tab(<< <<"S">>, <<"0">>, <<"A">> >>)
Pre_S_short == Tab(<< <<"S">>, <<"1">> >>)
Pre_L == Tab(<< <<"L">>, <<"1">>, <<"+">>, <<"1">>, <<"-">> >>)
Pre_L_bad == Tab(<< <<"L">>, <<"1">>, <<"+">>, <<"2">>, <<"?">>, <<"*">> >>)
Pre_P == Tab(<< <<"P">>, <<"p">>, <<"1","+">> >>)
Pre_P_empty == Tab(<< <<"P">>, <<"p">>, << >>, <<"*">> >>)
Pre_W == Tab(<< <<"W">>, <<"s">>, <<"1">>, <<"c">>, <<"0">>, <<"5">>, <<">","1","<","1">> >>)
Pre_W_end == Tab(<< <<"W">>, <<"s">>, <<"1">>, <<"c">>, <<"0">>, <<"5">> >>)
Pre_W_tab == Tab(<< <<"W">>, <<"s">>, <<"1">>, <<"c">>, <<"0">>, <<"5">>, << >> >>)
Pre_W_bad == Tab(<< <<"W">>, <<"s">>, <<"1">>, <<"c">>, <<"0">>, <<"5">>, <<">","1","<">> >>)
Pre_H == Tab(<< <<"#">> >>)

LinesPre == { Pre_S_1, Pre_S_1x, Pre_S_0, Pre_S_short, Pre_L, Pre_L_bad, Pre_P, Pre_P_empty,
              Pre_W, Pre_W_end, Pre_W_tab, Pre_W_bad, Pre_H }

InitPre == InitWith(FilesOf(LinesPre), {0})

SpecPre == InitPre /\ [][Next]_vars

\* Files, one of them empty, with a segment name above ULONG_MAX among lines the
\* preprocessor accepts and one it rejects; a system call that fails; and the batch
\* size parameters.
Env_S_big == Tab(<< <<"S">>,
                    <<"9","9","9","9","9","9","9","9","9","9",
                      "9","9","9","9","9","9","9","9","9","9">>,
                    <<"A">> >>)

LinesEnv == { Line_S_1, Env_S_big, Pre_S_short, Pre_L, Pre_P, Pre_W, Pre_H }

BatchSizes == {0, 25, 100}

InitEnv ==
  \/ InitOver(FilesOf(LinesEnv) \cup {<< >>}, {0}, {TRUE}, {0},
              {"none", "open", "fstat", "mmap"})
  \/ InitOver(FilesOf(LinesEnv), {0}, BOOLEAN, BatchSizes, {"none"})

SpecEnv == InitEnv /\ [][Next]_vars

---------------------------------------------------------------------------
(* What the claims are stated with: the lines of the file and the segment   *)
(* references of a P-line or W-line, read off the bytes without the         *)
(* tokenizer.                                                               *)

\* The bytes of the line that starts at offset p, without its newline.
LineAt(p) ==
  LET q == CHOOSE q \in p..Len(file) :
             /\ q = Len(file) \/ file[q + 1] = ch_NL
             /\ \A r \in p..(q - 1) : file[r + 1] # ch_NL
  IN SubSeq(file, p + 1, q)

\* s cut at every byte of seps.
RECURSIVE Split(_, _)
Split(s, seps) ==
  IF \E i \in 1..Len(s) : s[i] \in seps
  THEN LET i == CHOOSE i \in 1..Len(s) : s[i] \in seps /\ \A j \in 1..(i - 1) : ~(s[j] \in seps)
       IN << SubSeq(s, 1, i - 1) >> \o Split(SubSeq(s, i + 1, Len(s)), seps)
  ELSE << s >>

Fields(line) == Split(line, {ch_TAB})

\* The oriented segment references of a P-line: field 3, a comma-separated list of
\* names each followed by its orientation.
PathRefs(line) ==
  LET items == Split(Fields(line)[3], {ch_COMMA}) IN
  [k \in 1..Len(items) |->
     [name |-> SubSeq(items[k], 1, Len(items[k]) - 1),
      is_reverse |-> items[k][Len(items[k])] = ch_MINUS]]

\* The oriented segment references of a W-line: field 7, a run of names each
\* preceded by its orientation.
WalkRefs(line) ==
  LET w == Fields(line)[7]
      starts == {i \in 1..Len(w) : w[i] \in {ch_LT, ch_GT}}
      StopOf(i) == IF \E j \in starts : j > i
                   THEN (CHOOSE j \in starts : j > i /\ \A h \in starts : h > i => h >= j) - 1
                   ELSE Len(w)
      Nth(k) == CHOOSE i \in starts : Cardinality({j \in starts : j < i}) = k - 1
  IN [k \in 1..Cardinality(starts) |->
        [name |-> SubSeq(w, Nth(k) + 1, StopOf(Nth(k))), is_reverse |-> w[Nth(k)] = ch_LT]]

RefsOf(type, line_start) ==
  IF type = ch_P THEN PathRefs(LineAt(line_start)) ELSE WalkRefs(LineAt(line_start))

IsNumeral(name) == name # << >> /\ \A i \in 1..Len(name) : IsDigit(name[i])

RECURSIVE DecimalValue(_)
DecimalValue(name) ==
  IF name = << >> THEN 0
  ELSE 10 * DecimalValue(SubSeq(name, 1, Len(name) - 1)) + (name[Len(name)] - ch_ZERO)

RECURSIVE Concat(_)
Concat(seqs) == IF seqs = << >> THEN << >> ELSE Head(seqs) \o Concat(Tail(seqs))

RECURSIVE Sum(_)
Sum(ns) == IF ns = << >> THEN 0 ELSE Head(ns) + Sum(Tail(ns))

LastN(s, n) == SubSeq(s, Len(s) - n + 1, Len(s))

\* The run of node positions a reference to a segment with range [first, limit)
\* stands for: ascending and forward, or descending and reverse.
RunOf(range, is_reverse) ==
  [i \in 1..(range[2] - range[1]) |->
     IF is_reverse THEN Node(range[2] - i, TRUE) ELSE Node(range[1] + i - 1, FALSE)]

\* Some P-line or W-line refers to a segment name the translation table lacks.
MissingReference ==
  \/ \E k \in 1..paths : \E i \in DOMAIN RefsOf(ch_P, p_lines[k]) :
       ~(RefsOf(ch_P, p_lines[k])[i].name \in DOMAIN segment_translation)
  \/ \E k \in 1..walks : \E i \in DOMAIN RefsOf(ch_W, w_lines[k]) :
       ~(RefsOf(ch_W, w_lines[k])[i].name \in DOMAIN segment_translation)

---------------------------------------------------------------------------
(* The claims. *)

\* C1: in translated mode, when a P-line or W-line of a file the preprocessor
\* accepted refers to a segment name that the translation table has no entry for,
\* the whole ingest fails: the builder is never finalized and ingest returns null.
C1_MissingReferenceFailsIngest ==
  (pc \in {"paths", "walks", "finish", "done"} /\ valid_gfa /\ uses_translation
     /\ MissingReference)
  => (~finished /\ result # "index" /\ (pc = "done" => result = "null"))

\* C3: when ingest returns an index, the number of sequences inserted into the
\* builder is the number of P-lines plus the number of W-lines.
C3_OneFlushPerLine ==
  (pc = "done" /\ result = "index") => Len(inserted) = paths + walks

\* What the references of the line of an inserted sequence expand to.
ExpansionOf(rec) ==
  LET refs == RefsOf(rec.type, rec.line) IN
  Concat([i \in 1..Len(refs) |->
            IF uses_translation
            THEN RunOf(segment_translation[refs[i].name], refs[i].is_reverse)
            ELSE << Node(DecimalValue(refs[i].name), refs[i].is_reverse) >>])

InSegmentListOrder(rec) ==
  LET refs == RefsOf(rec.type, rec.line) IN
  IF uses_translation
  THEN /\ Len(rec.nodes) >= Len(ExpansionOf(rec))
       /\ LastN(rec.nodes, Len(ExpansionOf(rec))) = ExpansionOf(rec)
  ELSE /\ Len(rec.nodes) = Len(refs)
       /\ \A i \in 1..Len(refs) : rec.nodes[i].is_reverse = refs[i].is_reverse

\* C8 as the spec states it: the sequences are flushed in source order, that is
\* by ascending file offset of the line each comes from, whether or not P-lines and
\* W-lines are interleaved; in each the nodes follow the line's segment list.
C8_FlushesInSourceOrder ==
  /\ \A i, j \in 1..Len(inserted) : i < j => inserted[i].line < inserted[j].line
  /\ \A k \in 1..Len(inserted) : InSegmentListOrder(inserted[k])

\* C8, amended: the sequences of the P-lines are flushed first, by ascending file
\* offset, and then those of the W-lines, by ascending file offset; in each the
\* nodes of the line follow its segment list.
C8_PathsThenWalksInOrder ==
  /\ \A i, j \in 1..Len(inserted) :
       i < j => \/ inserted[i].type = ch_P /\ inserted[j].type = ch_W
                \/ inserted[i].type = inserted[j].type /\ inserted[i].line < inserted[j].line
  /\ \A k \in 1..Len(inserted) : InSegmentListOrder(inserted[k])

\* A W-line that precedes a P-line in the file, both flushed, and two P-lines flushed.
C8_Witness ==
  /\ Len(inserted) = 2
  /\ inserted[1].type = ch_P /\ inserted[2].type = ch_W
  /\ inserted[2].line < inserted[1].line
  /\ result = "index"

\* The range translate_segment returned on call k was allocated by that call.
IsFresh(k) == \A j \in 1..(k - 1) : allocations[j].range[2] <= allocations[k].range[1]

SegmentNameOf(k) == Fields(LineAt(s_lines[k]))[2]
SegmentSequenceOf(k) == Fields(LineAt(s_lines[k]))[3]

\* The translation table after any number of segments, in translated mode.
TranslationTableInvariant ==
  (translate /\ pc \in {"segments", "parse_metadata", "metadata", "paths", "walks", "finish", "done"})
  => /\ next_id >= 1
     \* each segment consumed so far has a range, the one returned for it or, for a
     \* name that comes twice, one returned for that name
     /\ Len(allocations) = rec_i - 1 \/ pc # "segments"
     /\ \A k \in 1..Len(allocations) :
          /\ allocations[k].name = SegmentNameOf(k)
          /\ allocations[k].name \in DOMAIN segment_translation
          /\ allocations[k].range[2] > allocations[k].range[1]
          \* in order of appearance, each new range starts where the last one ended
          /\ \/ /\ IsFresh(k)
                /\ allocations[k].range[1] =
                     (IF \E j \in 1..(k - 1) : IsFresh(j)
                      THEN LET j == CHOOSE j \in 1..(k - 1) :
                                      IsFresh(j) /\ \A h \in (j + 1)..(k - 1) : ~IsFresh(h)
                           IN allocations[j].range[2]
                      ELSE 1)
             \/ \E j \in 1..(k - 1) : allocations[j] = allocations[k]
     /\ \A n \in DOMAIN segment_translation :
          /\ segment_translation[n][2] > segment_translation[n][1]
          /\ \E k \in 1..Len(allocations) :
               allocations[k].name = n /\ allocations[k].range = segment_translation[n]
     \* the ranges of distinct segments are disjoint
     /\ \A n1, n2 \in DOMAIN segment_translation :
          n1 # n2 => created_nodes(segment_translation[n1])
                       \cap created_nodes(segment_translation[n2]) = {}
     /\ \A j, k \in 1..Len(allocations) :
          \/ allocations[j].range = allocations[k].range
          \/ (allocations[j].range[1] .. allocations[j].range[2] - 1)
               \cap (allocations[k].range[1] .. allocations[k].range[2] - 1) = {}
     \* and they cover [1, next_free), which is what the graph holds
     /\ UNION { allocations[k].range[1] .. (allocations[k].range[2] - 1) :
                  k \in 1..Len(allocations) } = 1 .. (next_id - 1)
     /\ graph_nodes = 1 .. (next_id - 1)

\* C9: in translated mode, after any number of segments, every segment name has a
\* range [f, l) with l > f, the ranges of distinct segments are disjoint, they are
\* allocated one after the other in order of appearance from 1, and their union is
\* [1, next_free); next_free never decreases; the graph holds these identifiers.
C9_TranslationTable ==
  /\ []TranslationTableInvariant
  /\ [][next_id' >= next_id /\ graph_nodes \subseteq graph_nodes']_vars

\* Two segments translated, one of them cut into several nodes, and an index returned.
C9_Witness ==
  /\ translate /\ result = "index"
  /\ Cardinality(DOMAIN segment_translation) = 2
  /\ \E n \in DOMAIN segment_translation : segment_translation[n][2] - segment_translation[n][1] >= 2

\* C10: in translated mode with a bound m > 0 a segment of length len gets exactly
\* ceil(len / m) consecutive identifiers (one when len <= m), its chunks are stored
\* in forward order, each of at most m bytes, and together they are the sequence;
\* with the bound 0 no segment is cut.
C10_SplitByLength ==
  (translate /\ pc \in {"segments", "parse_metadata", "metadata", "paths", "walks", "finish", "done"})
  => \A k \in 1..Len(allocations) :
       IsFresh(k) =>
         LET first == allocations[k].range[1]
             n == allocations[k].range[2] - first
             len == Len(SegmentSequenceOf(k))
             m == max_node_length
         IN /\ n >= 1
            /\ m > 0 => (n - 1) * m < len /\ len <= n * m
            /\ (m > 0 /\ len <= m) => n = 1
            /\ m = 0 => n = 1
            /\ \A i \in 0..(n - 1) :
                 /\ (first + i) \in DOMAIN sequences
                 /\ Len(sequences[first + i]) >= 1
                 /\ m > 0 => Len(sequences[first + i]) <= m
            /\ Concat([i \in 1..n |-> sequences[first + i - 1]]) = SegmentSequenceOf(k)

\* The example: segment 1 with sequence AAAAA and the bound 2 gets [1, 4), in chunks
\* AA, AA, A, and the path 1- is flushed as (3,-), (2,-), (1,-).
C10_Witness ==
  /\ max_node_length = 2
  /\ Len(allocations) = 1
  /\ allocations[1] = [name |-> Bytes(<< "1" >>), range |-> << 1, 4 >>]
  /\ SegmentSequenceOf(1) = Bytes(<< "A", "A", "A", "A", "A" >>)
  /\ sequences = << Bytes(<< "A", "A" >>), Bytes(<< "A", "A" >>), Bytes(<< "A" >>) >>
  /\ Len(inserted) = 1
  /\ inserted[1].nodes = << Node(3, TRUE), Node(2, TRUE), Node(1, TRUE) >>
  /\ result = "index"

---------------------------------------------------------------------------
(* The claims about the preprocessor, checked on SpecPre. *)

\* The offset at which line number n (from 0) starts.
StartOfLine(n) ==
  IF n = 0 THEN 0
  ELSE CHOOSE p \in 1..Len(file) :
         file[p] = ch_NL /\ Cardinality({q \in 1..p : file[q] = ch_NL}) = n

RecordIndex == << s_lines, l_lines, p_lines, w_lines >>

\* Once the file is invalid: the diagnostic names the line, nothing after that line
\* is in the record index, and nothing of ingest has run but the null return.
FailureIsTerminal ==
  ~valid_gfa =>
    /\ pc \in {"check", "done"}
    /\ iter = NIL
    /\ Len(errors) = 1 /\ errors[1].line = line_num
    /\ \A v \in 1..4 : \A k \in 1..Len(RecordIndex[v]) :
         RecordIndex[v][k] <= StartOfLine(line_num)
    /\ segments + links + paths + walks <= line_num + 1
    /\ ~translate /\ allocations = << >> /\ sequences = << >> /\ graph_nodes = {}
    /\ segment_translation = << >>
    /\ metadata_calls = << >> /\ ~metadata_installed
    /\ current_path = << >> /\ inserted = << >> /\ ~finished
    /\ result # "index"
    /\ pc = "done" => result = "null"

\* C2: on the first line that violates a validation rule the file is marked invalid
\* and preprocessing halts: no later line is classified, validated or added to the
\* record index, valid_gfa never becomes true again, and ingest returns null
\* without parsing segments, metadata or paths.
C2_PreprocessorFailurePolicy ==
  /\ []FailureIsTerminal
  /\ [][(pc = "preprocess" /\ errors' # errors) => (~valid_gfa' /\ pc' = "check")]_vars
  /\ [][~valid_gfa =>
          /\ ~valid_gfa'
          /\ UNCHANGED << s_lines, l_lines, p_lines, w_lines, iter, line_num,
                          translate_segment_ids, max_segment_length, max_path_length >>]_vars

\* The second of at least three lines was rejected and ingest returned null.
C2_Witness ==
  /\ ~valid_gfa /\ pc = "done" /\ result = "null"
  /\ line_num = 1
  /\ Cardinality({q \in 1..Len(file) : file[q] = ch_NL}) >= 2
  /\ segments + links + paths + walks = 2

IsPositiveNumeral(name) == IsNumeral(name) /\ DecimalValue(name) > 0

\* After preprocessing a file it accepts, the flag says whether some S-line name is
\* not, as a whole, the decimal numeral of a positive integer.
FlagTellsWholeNames ==
  (pc # "preprocess" /\ valid_gfa)
  => (translate_segment_ids <=> \E k \in 1..segments : ~IsPositiveNumeral(SegmentNameOf(k)))

\* C5: after preprocessing, translate_segment_ids is true if some S-line has a name
\* that, taken as a whole, does not parse as a non-negative integer or parses to
\* zero, and false when every S-line name is the decimal numeral of a positive
\* integer; once true it is never reset.
C5_TranslateSegmentIds ==
  /\ []FlagTellsWholeNames
  /\ [][translate_segment_ids => translate_segment_ids']_vars

\* The shape of a W-line, from its tab-separated fields.
HasWalkNames(F) == Len(F) >= 6 /\ \A i \in 2..6 : F[i] # << >>
EndIsLast(F) == Len(F) = 6
ValidWalkList(w) ==
  /\ w # << >>
  /\ w[1] \in {ch_LT, ch_GT}
  /\ ~(w[Len(w)] \in {ch_LT, ch_GT})
  /\ \A i \in 1..(Len(w) - 1) : w[i] \in {ch_LT, ch_GT} => ~(w[i + 1] \in {ch_LT, ch_GT})
HasWalkList(F) == Len(F) >= 7 /\ ValidWalkList(F[7])

\* The k-th recorded W-line was accepted: it is not the line the preprocessor failed on.
WLineAccepted(k) == valid_gfa \/ k < walks \/ errors[1].type # ch_W

\* C6 as the spec states it: a W-line with non-empty sample, haplotype, contig, start
\* and end is accepted both when end is the last field of the line and when a
\* non-empty list of walk elements follows it.
C6_WLineEndMayBeLast ==
  \A k \in 1..walks :
    LET F == Fields(LineAt(w_lines[k])) IN
    (HasWalkNames(F) /\ (EndIsLast(F) \/ HasWalkList(F))) => WLineAccepted(k)

\* C6, amended: such a W-line is accepted, recorded in the W record index with the
\* file still valid, when a non-empty list of walk elements, each '<' or '>' and at
\* least one name byte, follows the end field; when the end field is the last field
\* of the line the line is rejected, as ended after its end position.
C6_WLineNeedsWalk ==
  \A k \in 1..walks :
    LET F == Fields(LineAt(w_lines[k])) IN
    HasWalkNames(F) =>
      /\ HasWalkList(F) => WLineAccepted(k)
      /\ EndIsLast(F) =>
           /\ ~WLineAccepted(k)
           /\ errors[1].msg = "ended after" /\ errors[1].what = "end position"

\* A W-line with a walk was accepted and the next one, which ends at its end field,
\* was rejected.
C6_Witness ==
  /\ walks = 2 /\ ~valid_gfa /\ errors[1].type = ch_W
  /\ HasWalkNames(Fields(LineAt(w_lines[1]))) /\ HasWalkList(Fields(LineAt(w_lines[1])))
  /\ HasWalkNames(Fields(LineAt(w_lines[2]))) /\ EndIsLast(Fields(LineAt(w_lines[2])))

\* C7: a P-line whose segment list is empty, and a W-line whose walk is empty, are
\* rejected with the diagnostic for an empty path or walk, not the one for an
\* invalid segment, on the line's number.
C7_EmptyPathDiagnostic ==
  ~valid_gfa =>
    /\ (/\ errors[1].type = ch_P
        /\ LET F == Fields(LineAt(p_lines[paths])) IN
           Len(F) >= 3 /\ F[2] # << >> /\ F[3] = << >>)
       => (errors[1].msg = "is empty" /\ errors[1].line = line_num)
    /\ (/\ errors[1].type = ch_W
        /\ LET F == Fields(LineAt(w_lines[walks])) IN
           HasWalkNames(F) /\ Len(F) >= 7 /\ F[7] = << >>)
       => (errors[1].msg = "is empty" /\ errors[1].line = line_num)

---------------------------------------------------------------------------
(* The translation mode. *)

\* How many S-lines parse_segments has consumed.
SegmentsParsed ==
  IF pc = "segments" THEN rec_i - 1
  ELSE IF pc \in {"parse_metadata", "metadata", "paths", "walks", "finish"} THEN segments
  ELSE IF pc = "done" /\ result = "index" THEN segments
  ELSE 0

\* The mode parse_segments chose is the one the statistics of the file call for.
ModeFollowsStatistics ==
  pc \in {"segments", "parse_metadata", "metadata", "paths", "walks", "finish"}
  => (translate <=> \/ (max_node_length # 0 /\ max_segment_length > max_node_length)
                    \/ translate_segment_ids)

\* Every segment consumed so far was handled in the mode chosen: in translated mode
\* each got a range; in direct mode none did, and each is the one node that has the
\* integer value of its name for identifier and its sequence for label.
EverySegmentInTheMode ==
  (pc # "done" \/ result = "index") =>
    IF translate
    THEN Len(allocations) = SegmentsParsed
    ELSE /\ allocations = << >> /\ segment_translation = << >> /\ next_id = 1
         /\ \A k \in 1..SegmentsParsed :
              /\ IsNumeral(SegmentNameOf(k))
              /\ DecimalValue(SegmentNameOf(k)) \in graph_nodes
              /\ DecimalValue(SegmentNameOf(k)) \in DOMAIN sequences
              /\ \E j \in 1..SegmentsParsed :
                   /\ SegmentNameOf(j) = SegmentNameOf(k)
                   /\ sequences[DecimalValue(SegmentNameOf(k))] = SegmentSequenceOf(j)
         /\ \A id \in graph_nodes :
              \E k \in 1..SegmentsParsed :
                IsNumeral(SegmentNameOf(k)) /\ DecimalValue(SegmentNameOf(k)) = id

\* C11: the translation mode is chosen once per ingest: Translated exactly when
\* max_segment_length exceeds the configured max node length (0 for unbounded) or
\* translate_segment_ids is true, Direct otherwise; every segment is handled in that
\* mode, so after one segment got a translated range none is stored in direct mode;
\* in Direct mode each segment becomes exactly one node whose identifier is the
\* integer value of its name.
C11_TranslationMode ==
  /\ []ModeFollowsStatistics
  /\ []EverySegmentInTheMode
  /\ [][pc # "parse_segments" => translate' = translate]_vars
  /\ [][(allocations # << >> /\ sequences' # sequences)
          => Len(allocations') = Len(allocations) + 1]_vars

---------------------------------------------------------------------------
(* The mapped file, checked on SpecEnv. *)

\* gfa_to_gbwt has been left, by a return or by an exception.
Exited == pc = "done" /\ (destroyed \/ result = "exception")

WasOpened == failing_call # "open"
WasMapped == failing_call = "none" /\ Len(file) > 0

CallsOf(name) == {i \in 1..Len(syscalls) : syscalls[i] = name}

\* C12: on every exit path of ingest (open, stat or map failure, validation
\* failure, content error, metadata error, an error or exception raised while
\* preprocessing, success) a region that was mapped is unmapped and a descriptor
\* that was opened is closed, the unmap before the close; no exit path leaves the
\* mapping or the descriptor open.
C12_ResourceLifecycle ==
  Exited =>
    /\ ptr = NIL /\ fd < 0
    /\ Cardinality(CallsOf("munmap")) = (IF WasMapped THEN 1 ELSE 0)
    /\ Cardinality(CallsOf("close")) = (IF WasOpened THEN 1 ELSE 0)
    /\ \A i \in CallsOf("munmap") : \A j \in CallsOf("close") : i < j

\* C18: with automatic_batch_size false the batch size is the user's batch_size
\* unchanged; with it true the batch size is min(file size in bytes, max(user's
\* batch_size, MIN_SEQUENCES_PER_BATCH * (max_path_length + 1))), so it never
\* exceeds the file size.
C18_BatchSize ==
  batch_size # NIL =>
    LET floor == MIN_SEQUENCES_PER_BATCH * (max_path_length + 1)
        wanted == IF parameters_batch_size >= floor THEN parameters_batch_size ELSE floor
    IN IF automatic_batch_size
       THEN /\ batch_size = (IF Len(file) <= wanted THEN Len(file) ELSE wanted)
            /\ batch_size <= Len(file)
       ELSE batch_size = parameters_batch_size

\* An index built with a batch size clipped to the size of the file, below the
\* size the user gave.
C18_Witness ==
  /\ automatic_batch_size /\ result = "index"
  /\ batch_size = Len(file)
  /\ parameters_batch_size > Len(file)
  /\ MIN_SEQUENCES_PER_BATCH * (max_path_length + 1) < Len(file)

---------------------------------------------------------------------------
(* Metadata. *)

\* A call on the metadata builder has failed.
MetadataFailed == \E i \in 1..Len(errors) : errors[i].msg = "Could not parse GBWT metadata"

\* How many metadata calls the records of the file ask for.
MetadataRecords == IF walks > 0 THEN paths + walks ELSE paths

\* C13: no sequence is inserted into the builder until metadata parsing over all
\* path names and walk headers has completed successfully and the metadata has been
\* installed; when a metadata call (add_reference_path, add_walk or parse) fails,
\* the iteration stops at that record, no sequence is inserted, the builder is
\* never finalized and ingest returns null.
C13_MetadataPrecedesInsertion ==
  /\ []((inserted # << >> \/ current_path # << >> \/ finished \/ result = "index")
          => metadata_installed)
  /\ [](metadata_installed => (~MetadataFailed /\ Len(metadata_calls) = MetadataRecords))
  /\ [](MetadataFailed =>
          /\ pc = "done" /\ result = "null"
          /\ inserted = << >> /\ current_path = << >> /\ ~finished /\ ~metadata_installed
          /\ Len(metadata_calls) <= MetadataRecords)
  /\ [][MetadataFailed => metadata_calls' = metadata_calls]_vars
  /\ [][(errors' # errors /\ pc = "metadata") => (pc' = "done" /\ result' = "null")]_vars

\* A metadata call failed on the first of two records and ingest returned null.
C13_Witness ==
  /\ MetadataFailed /\ pc = "done" /\ result = "null"
  /\ Len(metadata_calls) = 1 /\ MetadataRecords = 2

\* The k-th metadata call the records of the file ask for, from the bytes of the
\* lines.
ExpectedMetadataCall(k) ==
  LET NameOf(j) == Fields(LineAt(p_lines[j]))[2]
      WalkOf(j) == SubSeq(Fields(LineAt(w_lines[j])), 2, 5)
  IN IF walks = 0 THEN [fn |-> "parse", args |-> << NameOf(k) >>]
     ELSE IF k <= paths THEN [fn |-> "add_reference_path", args |-> << NameOf(k) >>]
     ELSE [fn |-> "add_walk", args |-> WalkOf(k - paths)]

\* C14: when the file has a W-line, every P-line name is registered with
\* add_reference_path and every W-line with add_walk(sample, haplotype, contig,
\* start), the reference paths first, and parse() is never applied; when it has no
\* W-line, every P-line name is passed to parse() and neither add_reference_path
\* nor add_walk is called.
C14_MetadataModeSelection ==
  /\ [][metadata_calls' # metadata_calls =>
          /\ Len(metadata_calls) < MetadataRecords
          /\ metadata_calls'
               = Append(metadata_calls, ExpectedMetadataCall(Len(metadata_calls) + 1))]_vars
  /\ [](metadata_installed => Len(metadata_calls) = MetadataRecords)

\* The metadata of a file with its W-line before its P-line was installed.
C14_Witness ==
  /\ metadata_installed /\ walks = 1 /\ paths = 1
  /\ metadata_calls[1].fn = "add_reference_path"
  /\ metadata_calls[2].fn = "add_walk"
  /\ w_lines[1] < p_lines[1]

---------------------------------------------------------------------------
(* The content check. *)

\* The file was mapped and preprocessing is over, with every line accepted.
Preprocessed_Valid ==
  /\ ~(pc \in {"open", "preprocess", "check"})
  /\ valid_gfa /\ failing_call = "none" /\ result # "exception"

\* Nothing that comes after check_gfa_file in gfa_to_gbwt has happened.
NothingParsed ==
  /\ batch_size = NIL /\ ~translate
  /\ allocations = << >> /\ sequences = << >> /\ graph_nodes = {}
  /\ segment_translation = << >>
  /\ metadata_calls = << >> /\ ~metadata_installed
  /\ current_path = << >> /\ inserted = << >> /\ ~finished

\* C15: a file the preprocessor accepts that has no S-line, or has S-lines but
\* neither a P-line nor a W-line, makes ingest return null after preprocessing and
\* before any segment is parsed, any builder is made or any metadata call is made;
\* a file with an S-line and a P-line or a W-line passes the check.
C15_ContentCheck ==
  Preprocessed_Valid =>
    IF segments = 0 \/ (paths = 0 /\ walks = 0)
    THEN pc = "done" /\ result = "null" /\ NothingParsed /\ Len(errors) = 1
    ELSE /\ ~(pc = "done" /\ batch_size = NIL)
         /\ \A i \in 1..Len(errors) : errors[i].what # "file"

\* A file of two S-lines and an L-line, returned null for.
C15_Witness ==
  /\ Preprocessed_Valid /\ pc = "done" /\ result = "null"
  /\ segments = 2 /\ links = 1 /\ paths = 0 /\ walks = 0
  /\ errors[1].msg = "No paths or walks"

---------------------------------------------------------------------------
(* The rescan iterators, called on a GFAFile by a user whose callbacks answer *)
(* as they like.  pc is "iterate" inside an iterator and "returned" after it. *)

Iterators ==
  {"for_each_segment", "for_each_link", "for_each_path_name", "for_each_path",
   "for_each_walk_name", "for_each_walk"}

\* for(const char* iter : this->s_lines), and so on: the vector an iterator goes over.
records_of(fn) ==
  CASE fn = "for_each_segment" -> s_lines
    [] fn = "for_each_link" -> l_lines
    [] fn \in {"for_each_path_name", "for_each_path"} -> p_lines
    [] fn \in {"for_each_walk_name", "for_each_walk"} -> w_lines

\* The iterator going on whatever the callback answered.
after_callback_going_on(answer, more) == IF more THEN "iterate" ELSE "returned"

\* if(!callback(...)) { return; } and then the loop condition.
after_callback(answer, more) ==
  IF ~answer THEN "returned" ELSE IF more THEN "iterate" ELSE "returned"

\* What a callback may answer: anything, but on the second pass over the same
\* records the user's callbacks answer as they did on the first.
Answers ==
  IF first_pass # << >> /\ Len(callbacks) < Len(first_pass[1].callbacks)
  THEN {first_pass[1].callbacks[Len(callbacks) + 1].answer}
  ELSE BOOLEAN

\* The callback fn was called with args and gave answer.
Called(fn, args, answer) ==
  callbacks' = Append(callbacks, [fn |-> fn, args |-> args, answer |-> answer])

IterUnchanged ==
  /\ UNCHANGED << file, max_node_length, iter, line_num, valid_gfa,
                  translate_segment_ids, max_segment_length, max_path_length,
                  s_lines, l_lines, p_lines, w_lines, errors, translate, next_id,
                  segment_translation, sequences, graph_nodes, allocations,
                  metadata_calls, metadata_installed, current_path, inserted,
                  finished, batch_size, result, first_pass >>
  /\ UNCHANGED << emit_vars, parameter_vars, resource_vars >>

\* The user calls one of the iterators: if(!(this->ok())) { return; }, and a for
\* loop that may have nothing to go over.
CallIterator ==
  /\ pc = "check" /\ it = "none"
  /\ \E fn \in (IF first_pass = << >> THEN Iterators ELSE {first_pass[1].it}) :
       /\ it' = fn
       /\ pc' = (IF ok /\ records_of(fn) # << >> THEN "iterate" ELSE "returned")
  /\ rec_i' = 1 /\ sub' = "header"
  /\ callbacks' = << >>
  /\ NoTokens
  /\ UNCHANGED field
  /\ IterUnchanged

\* The fields a round of for_each_link goes over.
link_tokens(line_start) ==
  LET f1 == first_field(line_start, 0)
      f2 == next_field(f1)
      f3 == next_field(f2)
      f4 == next_field(f3)
  IN << f1, f2, f3, f4, next_field(f4) >>

IterSegment ==
  /\ pc = "iterate" /\ it = "for_each_segment"
  /\ \E answer \in Answers :
       LET toks == segment_tokens(s_lines[rec_i]) IN
       /\ Called("segment", << str(toks[2]), str(toks[3]) >>, answer)
       /\ pc' = after_callback(answer, rec_i < segments)
       /\ Tokenized(toks, {s_lines[rec_i]})
  /\ rec_i' = rec_i + 1
  /\ UNCHANGED << it, sub, field >>
  /\ IterUnchanged

IterLink ==
  /\ pc = "iterate" /\ it = "for_each_link"
  /\ \E answer \in Answers :
       LET toks == link_tokens(l_lines[rec_i]) IN
       /\ Called("link", << str(toks[2]), is_reverse_orientation(toks[3]),
                            str(toks[4]), is_reverse_orientation(toks[5]) >>, answer)
       /\ pc' = after_callback(answer, rec_i < links)
       /\ Tokenized(toks, {l_lines[rec_i], toks[3].end - 1, toks[5].end - 1})
  /\ rec_i' = rec_i + 1
  /\ UNCHANGED << it, sub, field >>
  /\ IterUnchanged

IterPathName ==
  /\ pc = "iterate" /\ it = "for_each_path_name"
  /\ \E answer \in Answers :
       /\ Called("path", << path_name_of(p_lines[rec_i]) >>, answer)
       /\ pc' = after_callback(answer, rec_i < paths)
  /\ Tokenized(path_name_tokens(p_lines[rec_i]), {p_lines[rec_i]})
  /\ rec_i' = rec_i + 1
  /\ UNCHANGED << it, sub, field >>
  /\ IterUnchanged

\* for_each_path: path(), then path_segment() for each subfield, then finish_path().
IterPath ==
  /\ pc = "iterate" /\ it = "for_each_path"
  /\ \E answer \in Answers :
       CASE sub = "header" ->
              LET toks == path_name_tokens(p_lines[rec_i]) IN
              /\ Called("path", << str(toks[2]) >>, answer)
              /\ pc' = after_callback(answer, TRUE)
              /\ field' = toks[2] /\ sub' = "segment" /\ rec_i' = rec_i
              /\ Tokenized(toks, {p_lines[rec_i]})
         [] sub = "segment" ->
              LET g == next_subfield(field) IN
              /\ Called("path_segment", << path_segment(g), is_reverse_path_segment(g) >>,
                        answer)
              /\ pc' = after_callback(answer, TRUE)
              /\ field' = g /\ rec_i' = rec_i
              /\ sub' = (IF g.has_next THEN "segment" ELSE "finish")
              /\ Tokenized(<< g >>, {g.end - 1})
         [] sub = "finish" ->
              /\ Called("finish_path", << >>, answer)
              /\ pc' = after_callback(answer, rec_i < paths)
              /\ field' = field /\ sub' = "header" /\ rec_i' = rec_i + 1
              /\ NoTokens
  /\ UNCHANGED it
  /\ IterUnchanged

IterWalkName ==
  /\ pc = "iterate" /\ it = "for_each_walk_name"
  /\ \E answer \in Answers :
       /\ Called("walk", walk_name_of(w_lines[rec_i]), answer)
       /\ pc' = after_callback(answer, rec_i < walks)
  /\ Tokenized(walk_name_tokens(w_lines[rec_i]), {w_lines[rec_i]})
  /\ rec_i' = rec_i + 1
  /\ UNCHANGED << it, sub, field >>
  /\ IterUnchanged

\* for_each_walk: walk(), then the end field is skipped and walk_segment() is called
\* for each subfield, then finish_walk().
IterWalk ==
  /\ pc = "iterate" /\ it = "for_each_walk"
  /\ \E answer \in Answers :
       CASE sub = "header" ->
              LET toks == walk_name_tokens(w_lines[rec_i])
                  f6 == next_field(toks[5])
              IN /\ Called("walk", walk_name_of(w_lines[rec_i]), answer)
                 /\ pc' = after_callback(answer, TRUE)
                 /\ field' = (IF answer THEN start_walk(f6) ELSE toks[5])
                 /\ sub' = "segment" /\ rec_i' = rec_i
                 /\ Tokenized(IF answer THEN toks \o << f6, start_walk(f6) >> ELSE toks,
                              {w_lines[rec_i]})
         [] sub = "segment" ->
              LET g == next_walk_subfield(field) IN
              /\ Called("walk_segment", << walk_segment(g), is_reverse_walk_segment(g) >>,
                        answer)
              /\ pc' = after_callback(answer, TRUE)
              /\ field' = g /\ rec_i' = rec_i
              /\ sub' = (IF g.has_next THEN "segment" ELSE "finish")
              /\ Tokenized(<< g >>, {g.begin})
         [] sub = "finish" ->
              /\ Called("finish_walk", << >>, answer)
              /\ pc' = after_callback(answer, rec_i < walks)
              /\ field' = field /\ sub' = "header" /\ rec_i' = rec_i + 1
              /\ NoTokens
  /\ UNCHANGED it
  /\ IterUnchanged

\* The file ends, without a newline, in a line that begins with S, L, P or W.
EndsInRecord ==
  /\ file # << >> /\ file[Len(file)] # ch_NL
  /\ LET starts == {q \in 0..(Len(file) - 1) : q = 0 \/ file[q] = ch_NL}
         last == CHOOSE q \in starts : \A r \in starts : r <= q
     IN file[last + 1] \in {ch_S, ch_L, ch_P, ch_W}

\* What preprocessing and the iterator called made of the file.
Summary ==
  [it |-> it, valid_gfa |-> valid_gfa,
   s_lines |-> s_lines, l_lines |-> l_lines, p_lines |-> p_lines, w_lines |-> w_lines,
   max_segment_length |-> max_segment_length, max_path_length |-> max_path_length,
   translate_segment_ids |-> translate_segment_ids,
   callbacks |-> callbacks]

\* The same bytes with a newline appended are given to a new GFAFile, and the same
\* iterator will be called on it.
Restart ==
  /\ pc = "returned" /\ first_pass = << >> /\ EndsInRecord
  /\ first_pass' = << Summary >>
  /\ file' = Append(file, ch_NL)
  /\ fd' = -1 /\ file_size' = 0 /\ ptr' = NIL /\ syscalls' = << >>
  /\ pc' = "open"
  /\ iter' = NIL /\ line_num' = 0
  /\ valid_gfa' = TRUE /\ translate_segment_ids' = FALSE
  /\ max_segment_length' = 0 /\ max_path_length' = 0
  /\ s_lines' = << >> /\ l_lines' = << >> /\ p_lines' = << >> /\ w_lines' = << >>
  /\ errors' = << >>
  /\ rec_i' = 0 /\ sub' = "header"
  /\ field' = [begin |-> 0, end |-> 0, line_num |-> 0, type |-> 0, has_next |-> FALSE]
  /\ it' = "none" /\ callbacks' = << >>
  /\ NoTokens
  /\ UNCHANGED << max_node_length, translate, next_id, segment_translation, sequences,
                  graph_nodes, allocations, metadata_calls, metadata_installed,
                  current_path, inserted, finished, batch_size, result, destroyed >>
  /\ UNCHANGED << emit_vars, parameter_vars >>

Iter_P_12 == Tab(<< <<"P">>, <<"p">>, <<"1","-",",","1","+">> >>)

LinesIter == { Pre_S_1, Pre_L, Iter_P_12, Pre_W, Pre_S_short, Pre_W_tab, Pre_H }

InitIter == InitWith(FilesOf(LinesIter), {0})

NextIter ==
  \/ MapFile
  \/ AddSLine \/ AddLLine \/ AddPLine \/ AddWLine \/ SkipLine
  \/ CallIterator
  \/ IterSegment \/ IterLink \/ IterPathName \/ IterPath \/ IterWalkName \/ IterWalk
  \/ Restart

SpecIter == InitIter /\ [][NextIter]_vars

\* The last callback answered false.
AnsweredFalse == callbacks # << >> /\ ~callbacks[Len(callbacks)].answer

\* C16: once a callback of one of the six iterators (segments, links, path names,
\* paths, walk names, walks) has returned false, that iteration invokes no further
\* callback and the iterator returns normally; an iteration changes neither the
\* validity flag nor the record index.
C16_EarlyTermination ==
  /\ [](AnsweredFalse => pc = "returned")
  /\ [][(AnsweredFalse /\ pc' # "open") => callbacks' = callbacks]_vars
  /\ [][pc = "iterate" =>
          /\ pc' \in {"iterate", "returned"}
          /\ UNCHANGED << valid_gfa, s_lines, l_lines, p_lines, w_lines, fd, file_size,
                          ptr, file >>]_vars
  /\ []((pc = "returned" /\ ~ok) => callbacks = << >>)

\* for_each_walk returned after walk_segment() answered false for the first of two
\* segments of the first of two walks.
C16_Witness ==
  /\ it = "for_each_walk" /\ pc = "returned" /\ AnsweredFalse
  /\ Len(callbacks) = 2 /\ callbacks[2].fn = "walk_segment"
  /\ field.has_next /\ walks = 2

\* C17: a file whose last line is an S-, L-, P- or W-line that ends at the end of
\* the file, and the same bytes with a newline appended, get the same validity
\* verdict, the same record index, the same max_segment_length, max_path_length
\* and translate_segment_ids, and the same callbacks with the same arguments from
\* each iterator.
C17_OptionalTrailingNewline ==
  (first_pass # << >> /\ pc \in {"check", "iterate", "returned"}) =>
    LET first == first_pass[1] IN
    /\ valid_gfa = first.valid_gfa
    /\ << s_lines, l_lines, p_lines, w_lines >>
         = << first.s_lines, first.l_lines, first.p_lines, first.w_lines >>
    /\ max_segment_length = first.max_segment_length
    /\ max_path_length = first.max_path_length
    /\ translate_segment_ids = first.translate_segment_ids
    /\ Len(callbacks) <= Len(first.callbacks)
    /\ callbacks = SubSeq(first.callbacks, 1, Len(callbacks))
    /\ pc = "returned" => callbacks = first.callbacks

\* for_each_path has gone a second time over a file that ends in its P-line, this
\* time with a newline after it.
C17_Witness ==
  /\ first_pass # << >> /\ pc = "returned" /\ it = "for_each_path" /\ ok
  /\ Len(callbacks) >= 4 /\ callbacks[Len(callbacks)].fn = "finish_path"
  /\ p_lines[paths] + Len(Iter_P_12) + 1 = Len(file)

\* C20: every field the tokenizer produces, in preprocessing and in every
\* iterator, lies in the mapped region, base <= begin <= end <= base + len, and no
\* byte is read at an offset of len or more, whether the file ends with a newline,
\* right after a tab or in the middle of a line.
C20_TokenContainment ==
  /\ \A i \in 1..Len(tokens) :
       /\ ptr # NIL
       /\ ptr <= tokens[i].begin /\ tokens[i].begin <= tokens[i].end
       /\ tokens[i].end <= ptr + Len(file)
  /\ \A q \in reads : ptr # NIL /\ ptr <= q /\ q < ptr + Len(file)

\* The walk subfield of a file that ends right after the tab of its W-line: an
\* empty token at the end of the region.
C20_Witness ==
  /\ tokens # << >>
  /\ file[Len(file)] = ch_TAB
  /\ tokens[Len(tokens)].begin = ptr + Len(file)
  /\ tokens[Len(tokens)].end = ptr + Len(file)
  /\ ~valid_gfa

---------------------------------------------------------------------------
(* The path encoder's buffer. *)

\* for_each_path or for_each_walk is about to begin a line.
BeginsLine ==
  \/ pc = "paths" /\ sub = "header" /\ rec_i <= paths
  \/ pc = "walks" /\ sub = "header" /\ rec_i <= walks

\* C19: whenever the path encoder begins a path or a walk, current_path is empty,
\* and every sequence inserted into the builder is exactly the expansion of the
\* references of one P-line or W-line, with no node of an earlier line in it.
C19_FlushIsolation ==
  /\ BeginsLine => current_path = << >>
  /\ \A k \in 1..Len(inserted) : inserted[k].nodes = ExpansionOf(inserted[k])

---------------------------------------------------------------------------
(* The metadata and the sequences, side by side. *)

\* The lines with a path name in the metadata: the P-lines and then the W-lines, or
\* the P-lines alone when parse() is applied.
NamedLines == p_lines \o w_lines

\* The name fields of the line a record starts at, as a metadata call gets them.
NameFieldsOf(type, line_start) ==
  IF type = ch_P THEN << Fields(LineAt(line_start))[2] >>
  ELSE SubSeq(Fields(LineAt(line_start)), 2, 5)

\* C21: when ingest returns an index, the i-th path name registered in the metadata
\* and the i-th sequence inserted into the builder come from the same line, and
\* both go over all P-lines in source order and then all W-lines in source order.
C21_MetadataSequenceAlignment ==
  (pc = "done" /\ result = "index") =>
    /\ Len(metadata_calls) = Len(NamedLines)
    /\ Len(inserted) = Len(NamedLines)
    /\ \A i \in 1..Len(inserted) :
         /\ inserted[i].line = NamedLines[i]
         /\ i <= Len(metadata_calls)
              => metadata_calls[i].args = NameFieldsOf(inserted[i].type, inserted[i].line)

---------------------------------------------------------------------------
(* gbwt_to_gfa: the segment cache and the writers of P-lines and W-lines, run *)
(* on the index and the sequence source that gfa_to_gbwt returned.  The      *)
(* graph has the nodes of the index; index.extract() gives back a sequence   *)
(* as it was inserted.                                                       *)

\* gbwt::Node::encode(id, is_reverse), as the integer
encode(node) == 2 * node.id + (IF node.is_reverse THEN 1 ELSE 0)

\* The node identifiers on the sequences of the index.
index_ids ==
  UNION { { inserted[k].nodes[i].id : i \in 1..Len(inserted[k].nodes) } : k \in 1..Len(inserted) }

\* graph.index->firstNode(): the smallest encoded node of the index
firstNode ==
  IF index_ids = {} THEN 0
  ELSE 2 * (CHOOSE m \in index_ids : \A n \in index_ids : m <= n)

\* (graph.index->sigma() - graph.index->firstNode()) / 2: the size of `segments`
cache_size ==
  IF index_ids = {} THEN 0
  ELSE (CHOOSE m \in index_ids : \A n \in index_ids : m >= n) + 1 - (firstNode \div 2)

\* (node - firstNode) / 2
relative(node) == (encode(node) - firstNode) \div 2

\* s in ascending order.
RECURSIVE Ascending(_)
Ascending(s) ==
  IF s = {} THEN << >>
  ELSE LET m == CHOOSE m \in s : \A n \in s : m <= n IN << m >> \o Ascending(s \ {m})

\* graph.for_each_segment(): the segments of the translation that are in the
\* graph, by their first node, each with its name and its range of nodes.
graph_segments ==
  LET firsts == { segment_translation[n][1] : n \in DOMAIN segment_translation } \cap index_ids
      order == Ascending(firsts)
  IN [k \in 1..Len(order) |->
        LET name == CHOOSE n \in DOMAIN segment_translation : segment_translation[n][1] = order[k]
        IN [name |-> name, nodes |-> segment_translation[name]]]

\* graph.for_each_handle(): the nodes of the graph
graph_handles == Ascending(index_ids)

\* std::to_string(id)
RECURSIVE to_string(_)
to_string(n) ==
  IF n < 10 THEN << ch_ZERO + n >> ELSE to_string(n \div 10) \o << ch_ZERO + (n % 10) >>

\* for(size_t i = relative; i < relative + length; i++) { segments[i] = (names.size(), length); }
cache_fill(segs, from, length, entry) ==
  [i \in DOMAIN segs |-> IF i >= from /\ i < from + length THEN entry ELSE segs[i]]

\* The callback of for_each_segment in SegmentCache(), from the k-th segment on.
RECURSIVE cache_segments(_, _)
cache_segments(c, k) ==
  IF k > Len(graph_segments) THEN c
  ELSE LET nodes == graph_segments[k].nodes
           length == nodes[2] - nodes[1]
       IN cache_segments(
            [segments |-> cache_fill(c.segments, relative(Node(nodes[1], FALSE)), length,
                                     << Len(c.names), length >>),
             names |-> Append(c.names, graph_segments[k].name)],
            k + 1)

\* The callback of for_each_handle in SegmentCache(), from the k-th node on.
RECURSIVE cache_handles(_, _)
cache_handles(c, k) ==
  IF k > Len(graph_handles) THEN c
  ELSE cache_handles(
         [segments |-> cache_fill(c.segments, relative(Node(graph_handles[k], FALSE)), 1,
                                  << Len(c.names), 1 >>),
          names |-> Append(c.names, to_string(graph_handles[k]))],
         k + 1)

\* SegmentCache::SegmentCache
SegmentCache ==
  LET c == [segments |-> [i \in 0..(cache_size - 1) |-> << 0, 0 >>], names |-> << >>]
  IN IF uses_translation THEN cache_segments(c, 1) ELSE cache_handles(c, 1)

\* SegmentCache::get(node): the name of the segment and its length in nodes
cache_get(node) ==
  LET entry == cache.segments[relative(node)]
  IN [name |-> cache.names[entry[1] + 1], length |-> entry[2]]

\* offset++ in the place of offset += segment.second
advance_by_one(at, segment) == at + 1

\* offset += segment.second
advance(at, segment) == at + segment.length

EmitUnchanged ==
  /\ UNCHANGED << file, max_node_length, iter, line_num, valid_gfa,
                  translate_segment_ids, max_segment_length, max_path_length,
                  s_lines, l_lines, p_lines, w_lines, errors, translate, next_id,
                  segment_translation, sequences, graph_nodes, allocations,
                  metadata_calls, metadata_installed, field, current_path, inserted,
                  finished, batch_size, result >>
  /\ UNCHANGED << parameter_vars, resource_vars, user_vars >>
  /\ NoTokens

\* gbwt_to_gfa on a graph built from what gfa_to_gbwt returned: every node of the
\* index has a sequence.  The segment names are cached.
GbwtToGfa ==
  /\ pc = "done" /\ result = "index" /\ destroyed
  /\ index_ids \subseteq graph_nodes
  /\ cache' = SegmentCache
  /\ pc' = "write" /\ rec_i' = 1 /\ sub' = "header"
  /\ UNCHANGED << written, offset >>
  /\ EmitUnchanged

\* write_paths / write_walks: index.extract(), the record type and the name fields
\* of the next sequence.
WriteLine ==
  /\ pc = "write" /\ sub = "header" /\ rec_i <= Len(inserted)
  /\ written' = Append(written, [type |-> inserted[rec_i].type, refs |-> << >>])
  /\ offset' = 0
  /\ sub' = "segment"
  /\ UNCHANGED << pc, rec_i, cache >>
  /\ EmitUnchanged

\* One round of while(offset < path.size()) in write_paths (and write_all_paths).
WritePathSegment ==
  /\ pc = "write" /\ sub = "segment" /\ inserted[rec_i].type = ch_P
  /\ offset < Len(inserted[rec_i].nodes)
  /\ LET node == inserted[rec_i].nodes[offset + 1]
         segment == cache_get(node)
     IN /\ written' = [written EXCEPT ![rec_i].refs =
                         Append(@, [name |-> segment.name, is_reverse |-> node.is_reverse])]
        /\ offset' = advance(offset, segment)
  /\ UNCHANGED << pc, rec_i, sub, cache >>
  /\ EmitUnchanged

\* One round of while(offset < path.size()) in write_walks.
WriteWalkSegment ==
  /\ pc = "write" /\ sub = "segment" /\ inserted[rec_i].type = ch_W
  /\ offset < Len(inserted[rec_i].nodes)
  /\ LET node == inserted[rec_i].nodes[offset + 1]
         segment == cache_get(node)
     IN /\ written' = [written EXCEPT ![rec_i].refs =
                         Append(@, [name |-> segment.name, is_reverse |-> node.is_reverse])]
        /\ offset' = advance(offset, segment)
  /\ UNCHANGED << pc, rec_i, sub, cache >>
  /\ EmitUnchanged

\* The while loop is over: writer.newline().
WriteNewline ==
  /\ pc = "write" /\ sub = "segment" /\ offset >= Len(inserted[rec_i].nodes)
  /\ rec_i' = rec_i + 1 /\ sub' = "header"
  /\ UNCHANGED << pc, cache, written, offset >>
  /\ EmitUnchanged

\* Every sequence of the index has been written.
WriteEnd ==
  /\ pc = "write" /\ sub = "header" /\ rec_i > Len(inserted)
  /\ pc' = "written"
  /\ UNCHANGED << rec_i, sub, cache, written, offset >>
  /\ EmitUnchanged

Emit_S_01 == Tab(<< <<"S">>, <<"0","1">>, <<"G">> >>)
Emit_P_a1 == Tab(<< <<"P">>, <<"p">>, <<"a","-",",","1","+">> >>)
Emit_P_01 == Tab(<< <<"P">>, <<"q">>, <<"0","1","+",",","0","1","-">> >>)

LinesEmit == { Line_S_a, Line_S_1, Emit_S_01, Emit_P_a1, Emit_P_01, Pre_W }

InitEmit ==
  InitWith({ FileOf(lines, TRUE) : lines \in UNION { [1..n -> LinesEmit] : n \in 1..MaxLines } },
           {0, MaxNodeLength})

NextEmit ==
  \/ MapFile
  \/ AddSLine \/ AddPLine \/ AddWLine
  \/ CheckGfaFile \/ DetermineBatchSize
  \/ ParseSegmentsBegin \/ ForEachSegment \/ ParseSegmentsEnd
  \/ ParseMetadataBegin \/ AddReferencePath \/ AddWalk \/ ParsePathName
  \/ InstallMetadata
  \/ PathHeader \/ PathSegment \/ FinishPath \/ PathsEnd
  \/ WalkHeader \/ WalkSegment \/ FinishWalk \/ WalksEnd
  \/ FinishConstruction
  \/ Destructor
  \/ GbwtToGfa
  \/ WriteLine \/ WritePathSegment \/ WriteWalkSegment \/ WriteNewline \/ WriteEnd

SpecEmit == InitEmit /\ [][NextEmit]_vars

\* The k-th line has been written to its end.
WrittenOut(k) == k < rec_i \/ pc = "written"

\* A numeral as std::to_string writes it: digits, no leading zero.
IsCanonicalNumeral(name) == IsNumeral(name) /\ (Len(name) = 1 \/ name[1] # ch_ZERO)

\* The name of a written reference is one the stored nodes can be found by: a
\* segment name of the translation, or the numeral of a node identifier.
NamesSegment(ref) ==
  IF uses_translation THEN ref.name \in DOMAIN segment_translation
  ELSE IsCanonicalNumeral(ref.name)

\* The run of nodes a written reference stands for.
RunOfReference(ref) ==
  IF uses_translation THEN RunOf(segment_translation[ref.name], ref.is_reverse)
  ELSE << Node(DecimalValue(ref.name), ref.is_reverse) >>

\* C22, the claim as it was made: the references written for a stored sequence that
\* is the expansion of the references of its line are those references, each with
\* the original segment name and orientation, in the original order.
C22_OriginalReferences ==
  \A k \in 1..Len(written) :
    (WrittenOut(k) /\ inserted[k].nodes = ExpansionOf(inserted[k]))
      => written[k].refs = RefsOf(inserted[k].type, inserted[k].line)

\* C22, amended: the writers of P-lines and W-lines output one reference per
\* traversed segment, in the order of the stored sequence and with the orientation
\* of its nodes; the name is the segment's name in the translation or, where the
\* graph has no segment names, the decimal numeral of the node identifier; each
\* step advances offset by the number of nodes of the segment written, which is at
\* least one, and never past the end of the sequence.
C22_EmitCollapsesExpansion ==
  /\ [](\A k \in 1..Len(written) :
          LET nodes == inserted[k].nodes
              upto == IF WrittenOut(k) THEN Len(nodes) ELSE offset
              refs == written[k].refs
          IN /\ written[k].type = inserted[k].type
             /\ \A i \in 1..Len(refs) : NamesSegment(refs[i])
             /\ upto <= Len(nodes)
             /\ Concat([i \in 1..Len(refs) |-> RunOfReference(refs[i])])
                  = SubSeq(nodes, 1, upto))
  /\ [][(pc = "write" /\ sub = "segment" /\ written' # written) =>
          LET refs == written'[rec_i].refs IN
          /\ Len(refs) = Len(written[rec_i].refs) + 1
          /\ offset' - offset = Len(RunOfReference(refs[Len(refs)]))
          /\ offset' > offset]_vars

\* The path a-,1+ over the segments a, of two nodes, and 1, of three, has been
\* written from its five nodes as two references.
C22_Witness ==
  /\ pc = "written" /\ uses_translation
  /\ \E k \in 1..Len(written) :
       /\ Len(inserted[k].nodes) = 5
       /\ Len(written[k].refs) = 2
       /\ written[k].refs[1].is_reverse /\ ~written[k].refs[2].is_reverse
       /\ written[k].refs = RefsOf(inserted[k].type, inserted[k].line)

=============================================================================
